---- MODULE Spec2Model ----
(***************************************************************************)
(* A model of scatter.py: the lexical declaration extractor, the enclosing *)
(* declaration finder, the build-unit locators (snapshot and disk), the    *)
(* consumer funnel, the sproc binding resolver and the result report.      *)
(* Texts are sequences of one-character strings; the regular expressions   *)
(* of the source are matched character by character, in the order the      *)
(* backtracking matcher of Python's re tries them.                         *)
(***************************************************************************)
EXTENDS Integers, Sequences, FiniteSets, TLC

VARIABLES
    content,          \* text handed to the two lexical functions
    match_start_index,\* offset handed to find_enclosing_type_name
    found_types,      \* result of extract_type_names_from_content
    enclosing,        \* result of find_enclosing_type_name
    tpc,              \* position of the lexical run
    commit_tree,      \* the snapshot: directory path -> its items, in stored order
    loc_mode,         \* which locator runs: "snapshot" or "disk"
    cs_file,          \* path of the source file handed to the locator
    current_path,     \* directory the upward search is at
    project_file,     \* what the locator returned
    loc_faults,       \* the failures met so far by the search
    loc_steps,        \* iterations of the search loop so far
    lpc,              \* position of the locator: "search", "found", "none"
    diff_index,       \* the changes between the comparison base and the feature revision
    project_changes,  \* what analyze_branch_changes returns: manifest -> changed files
    disk,             \* the file system: directory path -> its entries, in listing order
    manifests,        \* path of a manifest file -> what ElementTree reads from it
    sources,          \* path of a source file -> its text
    target_project,   \* --target-project as given
    target_csproj_path,   \* argument of find_consumers
    search_scope_path,    \* argument of find_consumers
    target_namespace,     \* argument of find_consumers
    class_name,           \* argument of find_consumers, <<>> when not given
    method_name,          \* argument of find_consumers, <<>> when not given
    potential_consumers,  \* list of manifest paths
    direct_consumers,     \* keys of the dict, in insertion order
    namespace_consumers,  \* keys of the dict, in insertion order
    class_consumers,      \* keys of the dict, in insertion order
    method_consumers,     \* keys of the dict, in insertion order
    consumer_data,        \* the one dict object per key that the four dicts share
    cs_file_cache,        \* directory -> listed source files
    final_consumers_data, \* what find_consumers returned
    recorded,         \* history: <<stage, consumer, files>> as each stage recorded them
    listed,           \* history: directories listed for source files, in order
    reads,            \* history: <<stage, file>> of every file read
    funnel_faults,    \* history: the I/O and parse errors met
    stage_faults,     \* history: <<stage, file>> of every read that failed
    funnel_run,       \* 1 in the call, 2 in the call on the repaired scope,
                      \* 3 in the call without the method filter
    first_result,     \* what the first call returned, kept for the second
    fpc,              \* position of the funnel run
    sproc_name_input, \* argument of find_cs_files_referencing_sproc
    custom_sproc_regex_pattern,   \* argument of find_cs_files_referencing_sproc
    search_path,      \* argument of find_cs_files_referencing_sproc
    sproc_refs,       \* what find_cs_files_referencing_sproc returned
    projects_classes_sproc_refs,  \* the dict of dicts the call built and returned
    sproc_log,        \* history: the errors the pattern setup logged
    sproc_faults,     \* history: what failed during the call
    spc,              \* position of the sproc run
    all_results,      \* the result records of __main__
    discovered,       \* history: all_results as it was before the sort
    rpc,              \* position of the report run
    csproj,           \* the manifest handed to derive_namespace
    derived,          \* what derive_namespace returned
    dpc,              \* position of the namespace run
    args,             \* the command line and what the run meets
    mpc,              \* position of __main__
    exit_status,      \* status the process ended with, "running" before
    scans,            \* history: the kinds of scan started so far
    not_found,        \* history: the not-found conditions met so far
    main_log,         \* history: the errors __main__ and its callees logged
    namespace_str     \* the namespace handed to find_consumers

textVars == <<content, match_start_index, found_types, enclosing, tpc>>

locVars == <<commit_tree, loc_mode, cs_file, current_path, project_file,
             loc_faults, loc_steps, lpc, diff_index, project_changes>>

envVars == <<disk, manifests, sources>>

funnelVars == <<target_project, target_csproj_path, search_scope_path,
                target_namespace, class_name, method_name, potential_consumers,
                direct_consumers, namespace_consumers, class_consumers,
                method_consumers, consumer_data, cs_file_cache,
                final_consumers_data, recorded, listed, reads, funnel_faults,
                stage_faults, funnel_run, first_result, fpc>>

sprocVars == <<sproc_name_input, custom_sproc_regex_pattern, search_path,
               sproc_refs, projects_classes_sproc_refs, sproc_log, sproc_faults,
               spc>>

reportVars == <<all_results, discovered, rpc>>

namespaceVars == <<csproj, derived, dpc>>

mainVars == <<args, mpc, exit_status, scans, not_found, main_log, namespace_str>>

vars == <<textVars, locVars, envVars, funnelVars, sprocVars, reportVars,
          namespaceVars, mainVars>>

\* what a run of one part of the program leaves alone
notText ==
    <<locVars, envVars, funnelVars, sprocVars, reportVars, namespaceVars,
      mainVars>>

notLoc ==
    <<textVars, envVars, funnelVars, sprocVars, reportVars, namespaceVars,
      mainVars>>

notFunnel ==
    <<textVars, locVars, envVars, sprocVars, reportVars, namespaceVars,
      mainVars>>

notSproc ==
    <<textVars, locVars, envVars, funnelVars, reportVars, namespaceVars,
      mainVars>>

notReport ==
    <<textVars, locVars, envVars, funnelVars, sprocVars, namespaceVars,
      mainVars>>

notNamespace ==
    <<textVars, locVars, envVars, funnelVars, sprocVars, reportVars,
      mainVars>>

notMain ==
    <<textVars, locVars, envVars, funnelVars, sprocVars, reportVars,
      namespaceVars>>

(***************************************************************************)
(* Characters                                                              *)
(***************************************************************************)
UpperSeq == <<"A", "B", "C", "D", "E", "F", "G", "H", "I", "J", "K", "L", "M",
              "N", "O", "P", "Q", "R", "S", "T", "U", "V", "W", "X", "Y", "Z">>

LowerSeq == <<"a", "b", "c", "d", "e", "f", "g", "h", "i", "j", "k", "l", "m",
              "n", "o", "p", "q", "r", "s", "t", "u", "v", "w", "x", "y", "z">>

DigitSeq == <<"0", "1", "2", "3", "4", "5", "6", "7", "8", "9">>

Range(s) == {s[i] : i \in DOMAIN s}

Letters == Range(UpperSeq) \cup Range(LowerSeq)

Digits == Range(DigitSeq)

\* \s of re, and the characters str.strip() removes
IsSpace(c) == c \in {" ", "\n", "\t"}

\* [A-Za-z_]
IsNameStart(c) == c \in Letters \cup {"_"}

\* [A-Za-z0-9_<>,\s]
IsNameChar(c) == c \in Letters \cup Digits \cup {"_", "<", ">", ","} \/ IsSpace(c)

\* str.lower() and re.IGNORECASE, on one character
ToLower(c) ==
    IF c \in Range(UpperSeq)
    THEN LowerSeq[CHOOSE i \in DOMAIN UpperSeq : UpperSeq[i] = c]
    ELSE c

Lower(s) == [i \in DOMAIN s |-> ToLower(s[i])]

(***************************************************************************)
(* Matching helpers                                                        *)
(***************************************************************************)
\* the literal w matches in t at index i (1-based)
StartsWith(t, i, w) ==
    /\ i + Len(w) - 1 <= Len(t)
    /\ \A j \in 1..Len(w) : t[i + j - 1] = w[j]

\* length of the alternative of W that matches in t at i, 0 when none does
\* (the alternatives of every group of the source start differently)
WordLenAt(t, i, W) ==
    IF \E w \in W : StartsWith(t, i, w)
    THEN Len(CHOOSE w \in W : StartsWith(t, i, w))
    ELSE 0

RECURSIVE SkipSpaces(_, _)
\* greedy \s* from index i: the index of the first character that is no space
SkipSpaces(t, i) ==
    IF i <= Len(t) /\ IsSpace(t[i]) THEN SkipSpaces(t, i + 1) ELSE i

\* ^ under re.MULTILINE
IsLineStart(t, i) == i = 1 \/ (i - 1 <= Len(t) /\ t[i - 1] = "\n")

AccessWords == {<<"p", "u", "b", "l", "i", "c">>,
                <<"i", "n", "t", "e", "r", "n", "a", "l">>,
                <<"p", "r", "i", "v", "a", "t", "e">>,
                <<"p", "r", "o", "t", "e", "c", "t", "e", "d">>}

ModifierWords == {<<"s", "t", "a", "t", "i", "c">>,
                  <<"a", "b", "s", "t", "r", "a", "c", "t">>,
                  <<"s", "e", "a", "l", "e", "d">>,
                  <<"p", "a", "r", "t", "i", "a", "l">>}

TypeKeywords == {<<"c", "l", "a", "s", "s">>,
                 <<"s", "t", "r", "u", "c", "t">>,
                 <<"i", "n", "t", "e", "r", "f", "a", "c", "e">>,
                 <<"e", "n", "u", "m">>}

WhereWord == <<"w", "h", "e", "r", "e">>

RECURSIVE SkipModifiers(_, _)
\* (?:static\s+|abstract\s+|sealed\s+|partial\s+)*
SkipModifiers(t, i) ==
    LET n == WordLenAt(t, i, ModifierWords) IN
    IF n > 0 /\ i + n <= Len(t) /\ IsSpace(t[i + n])
    THEN SkipModifiers(t, SkipSpaces(t, i + n))
    ELSE i

\* str.strip()
RECURSIVE StripLeft(_)
StripLeft(s) == IF s # <<>> /\ IsSpace(s[1]) THEN StripLeft(Tail(s)) ELSE s

RECURSIVE StripRight(_)
StripRight(s) ==
    IF s # <<>> /\ IsSpace(s[Len(s)]) THEN StripRight(SubSeq(s, 1, Len(s) - 1)) ELSE s

Strip(s) == StripRight(StripLeft(s))

RECURSIVE SubGenericFrom(_, _, _)
\* re.sub(r'<.*', '', s): on every line, the text from the first '<' to the
\* end of that line is removed ('.' does not match a newline)
SubGenericFrom(s, i, cutting) ==
    IF i > Len(s) THEN <<>>
    ELSE IF s[i] = "\n" THEN <<s[i]>> \o SubGenericFrom(s, i + 1, FALSE)
    ELSE IF cutting \/ s[i] = "<" THEN SubGenericFrom(s, i + 1, TRUE)
    ELSE <<s[i]>> \o SubGenericFrom(s, i + 1, FALSE)

SubGeneric(s) == SubGenericFrom(s, 1, FALSE)

\* mutant: the name is not cut at the first comma
SplitCommaFirst_NoSplit(s) == s

\* s.split(',')[0]
SplitCommaFirst(s) ==
    IF \E i \in DOMAIN s : s[i] = ","
    THEN SubSeq(s, 1, (CHOOSE i \in DOMAIN s :
                          s[i] = "," /\ \A j \in 1..(i - 1) : s[j] # ",") - 1)
    ELSE s

\* the base name both functions compute from the captured name
TypeNameBase(type_name_full) == Strip(SplitCommaFirst(Strip(SubGeneric(type_name_full))))

NoMatch == [ok |-> FALSE, start |-> 0, stop |-> 0, name |-> <<>>]

(***************************************************************************)
(* TYPE_DECLARATION_PATTERN and extract_type_names_from_content            *)
(***************************************************************************)
\* \s*(?::|{|where|<) at index e: the index after the terminator, 0 on failure
TerminatorEnd(t, e) ==
    LET i == SkipSpaces(t, e) IN
    IF i <= Len(t) /\ t[i] \in {":", "{", "<"} THEN i + 1
    ELSE IF StartsWith(t, i, WhereWord) THEN i + Len(WhereWord)
    ELSE 0

\* the head both patterns share up to the first character of the name:
\* index of the name's first character, 0 on failure.  strict is the
\* enclosing pattern's head, whose access modifier must be followed by \s+
DeclarationHead(t, p, strict) ==
    LET q1 == SkipSpaces(t, p)
        an == WordLenAt(t, q1, AccessWords)
        q2 == IF an = 0 THEN q1
              ELSE IF ~strict THEN SkipSpaces(t, q1 + an)
              ELSE IF q1 + an <= Len(t) /\ IsSpace(t[q1 + an])
                   THEN SkipSpaces(t, q1 + an)
                   ELSE q1
        q3 == SkipModifiers(t, q2)
        kn == WordLenAt(t, q3, TypeKeywords)
        q4 == q3 + kn
    IN  IF kn > 0 /\ q4 <= Len(t) /\ IsSpace(t[q4])
        THEN LET q5 == SkipSpaces(t, q4) IN
             IF q5 <= Len(t) /\ IsNameStart(t[q5]) THEN q5 ELSE 0
        ELSE 0

RECURSIVE LazyNameEnd(_, _)
\* ([A-Za-z_][A-Za-z0-9_<>,\s]*?) followed by the terminator: the index after
\* the shortest run of name characters that a terminator follows, 0 when
\* the run ends before one does
LazyNameEnd(t, e) ==
    IF TerminatorEnd(t, e) # 0 THEN e
    ELSE IF e <= Len(t) /\ IsNameChar(t[e]) THEN LazyNameEnd(t, e + 1)
    ELSE 0

\* TYPE_DECLARATION_PATTERN tried at index p
TypeDeclarationMatchAt(t, p) ==
    LET n0 == IF IsLineStart(t, p) THEN DeclarationHead(t, p, FALSE) ELSE 0
        e == IF n0 = 0 THEN 0 ELSE LazyNameEnd(t, n0 + 1)
    IN  IF e = 0 THEN NoMatch
        ELSE [ok |-> TRUE, start |-> p, stop |-> TerminatorEnd(t, e),
              name |-> SubSeq(t, n0, e - 1)]

RECURSIVE TypeDeclarationFindIter(_, _)
\* TYPE_DECLARATION_PATTERN.finditer(content): the matches from index p on,
\* left to right, not overlapping
TypeDeclarationFindIter(t, p) ==
    IF p > Len(t) THEN <<>>
    ELSE LET m == TypeDeclarationMatchAt(t, p) IN
         IF m.ok THEN <<m>> \o TypeDeclarationFindIter(t, m.stop)
         ELSE TypeDeclarationFindIter(t, p + 1)

extract_type_names_from_content(c) ==
    LET matches == TypeDeclarationFindIter(c, 1) IN
    {TypeNameBase(Strip(matches[i].name)) : i \in DOMAIN matches} \ {<<>>}

(***************************************************************************)
(* enclosing_type_pattern and find_enclosing_type_name                     *)
(***************************************************************************)
RECURSIVE NameRunEnd(_, _)
\* greedy [A-Za-z0-9_<>,\s]* from index i: index after the run
NameRunEnd(t, i) ==
    IF i <= Len(t) /\ IsNameChar(t[i]) THEN NameRunEnd(t, i + 1) ELSE i

EnclosingTypeMatchAt(t, p) ==
    LET n0 == IF IsLineStart(t, p) THEN DeclarationHead(t, p, TRUE) ELSE 0 IN
    IF n0 = 0 THEN NoMatch
    ELSE LET e == NameRunEnd(t, n0 + 1) IN
         [ok |-> TRUE, start |-> p, stop |-> e, name |-> SubSeq(t, n0, e - 1)]

RECURSIVE EnclosingTypeFindIter(_, _)
EnclosingTypeFindIter(t, p) ==
    IF p > Len(t) THEN <<>>
    ELSE LET m == EnclosingTypeMatchAt(t, p) IN
         IF m.ok THEN <<m>> \o EnclosingTypeFindIter(t, m.stop)
         ELSE EnclosingTypeFindIter(t, p + 1)

NoName == [some |-> FALSE, name |-> <<>>]

SomeName(n) == [some |-> TRUE, name |-> n]

RECURSIVE LastFoundTypeName(_, _, _, _)
\* the loop of find_enclosing_type_name over the matches
LastFoundTypeName(matches, i, last_match_start, last_found_type_name) ==
    IF i > Len(matches) THEN last_found_type_name
    ELSE IF matches[i].start > last_match_start
         THEN LET type_name_base == TypeNameBase(Strip(matches[i].name)) IN
              LastFoundTypeName(matches, i + 1, matches[i].start,
                                IF type_name_base # <<>>
                                THEN SomeName(type_name_base)
                                ELSE last_found_type_name)
         ELSE LastFoundTypeName(matches, i + 1, last_match_start, last_found_type_name)

\* a mutation of find_enclosing_type_name: the whole text is searched
find_enclosing_type_name_Whole(c, k) ==
    LastFoundTypeName(EnclosingTypeFindIter(c, 1), 1, 0, NoName)

\* finditer(content, 0, k) searches as if content were k characters long
find_enclosing_type_name(c, k) ==
    LET before == SubSeq(c, 1, IF k > Len(c) THEN Len(c) ELSE k) IN
    LastFoundTypeName(EnclosingTypeFindIter(before, 1), 1, 0, NoName)

(***************************************************************************)
(* Paths: a path is a sequence of names, a name a sequence of characters.  *)
(* <<>> is Path('.') of a snapshot and the root of the file system.        *)
(***************************************************************************)
EndsWith(s, w) == Len(w) <= Len(s) /\ SubSeq(s, Len(s) - Len(w) + 1, Len(s)) = w

CsprojSuffix == <<".", "c", "s", "p", "r", "o", "j">>

CsSuffix == <<".", "c", "s">>

\* Path.parent: the parent of the root is the root
Parent(p) == IF p = <<>> THEN <<>> ELSE SubSeq(p, 1, Len(p) - 1)

IsPrefix(p, q) == Len(p) <= Len(q) /\ SubSeq(q, 1, Len(p)) = p

NoPath == [some |-> FALSE, path |-> <<>>]

SomePath(p) == [some |-> TRUE, path |-> p]

\* a mutation of MoveUp: the search stays where it is
MoveUp_Stay(current) == current

\* current_path = current_path.parent, the step to the parent directory
MoveUp(current) == Parent(current)

\* the iterations of a search loop a run follows
MaxSteps == 6

\* at most one item of S fails in one step
FaultChoices(S) == {{}} \cup {{x} : x \in S}

\* an entry of a directory of the file system: a file, a directory or a
\* symbolic link to the absolute path target
Entry(n, k, t) == [name |-> n, kind |-> k, target |-> t]

\* the file system holding the root directory only
EmptyDisk == [d \in {<<>>} |-> <<>>]

\* no file has a content
NoFiles == <<>>

SRC_ == <<"S", "R", "C">>
src_ == <<"s", "r", "c">>
a_ == <<"a">>
r_ == <<"r">>
lib_ == <<"l", "i", "b">>
P_CSPROJ == <<"P", ".", "C", "S", "P", "R", "O", "J">>
p_csproj == <<"p", ".", "c", "s", "p", "r", "o", "j">>
q_csproj == <<"q", ".", "c", "s", "p", "r", "o", "j">>
root_csproj == <<"r", "o", "o", "t", ".", "c", "s", "p", "r", "o", "j">>
real_csproj == <<"r", "e", "a", "l", ".", "c", "s", "p", "r", "o", "j">>
x_cs == <<"x", ".", "c", "s">>

(***************************************************************************)
(* find_project_file: the locator on a snapshot                            *)
(***************************************************************************)
\* index of the first item of a tree whose name equals part, case folded;
\* 0 when there is none
FoundItem(items, part) ==
    IF \E i \in DOMAIN items : Lower(items[i].name) = Lower(part)
    THEN CHOOSE i \in DOMAIN items :
            /\ Lower(items[i].name) = Lower(part)
            /\ \A j \in 1..(i - 1) : Lower(items[j].name) # Lower(part)
    ELSE 0

RECURSIVE Navigate(_, _, _, _)
\* the walk over current_path.parts from the root tree: the directory
\* reached, or a KeyError (part missing, a blob, a submodule commit)
Navigate(tree, temp_tree, parts, i) ==
    IF i > Len(parts) THEN [ok |-> TRUE, at |-> temp_tree, why |-> "none"]
    ELSE LET k == FoundItem(tree[temp_tree], parts[i]) IN
         IF k = 0 THEN [ok |-> FALSE, at |-> temp_tree, why |-> "missing"]
         ELSE LET found_item == tree[temp_tree][k] IN
              IF found_item.type = "tree"
              THEN Navigate(tree, Append(temp_tree, found_item.name), parts, i + 1)
              ELSE [ok |-> FALSE, at |-> temp_tree, why |-> found_item.type]

\* the first blob of a tree whose name ends in .csproj, case folded
FirstManifestBlob(items) ==
    LET Hits == {i \in DOMAIN items :
                    items[i].type = "blob" /\ EndsWith(Lower(items[i].name), CsprojSuffix)}
    IN  IF Hits = {} THEN 0 ELSE CHOOSE i \in Hits : \A j \in Hits : i <= j

\* one iteration of the while loop of find_project_file.  fault is what the
\* repository access does in this iteration: "none", "git_error" (an
\* exception while the tree is read) or "blob_error" (an exception while
\* the blobs of the directory reached are listed)
SnapshotStep(fault) ==
    LET Found(at, k) ==
            /\ project_file' = SomePath(Append(current_path, commit_tree[at][k].name))
            /\ lpc' = "found"
            /\ UNCHANGED current_path
        Search(nav, k) ==
            IF fault = "git_error"
            THEN /\ lpc' = "none"
                 /\ loc_faults' = loc_faults \cup {fault}
                 /\ UNCHANGED <<current_path, project_file>>
            ELSE IF ~nav.ok
            THEN /\ lpc' = "none"
                 /\ loc_faults' = loc_faults \cup {nav.why}
                 /\ UNCHANGED <<current_path, project_file>>
            ELSE /\ loc_faults' = IF fault = "blob_error"
                                  THEN loc_faults \cup {fault} ELSE loc_faults
                 /\ IF k # 0
                    THEN Found(nav.at, k)
                    ELSE IF current_path = <<>>
                    THEN /\ lpc' = "none"
                         /\ UNCHANGED <<current_path, project_file>>
                    ELSE /\ current_path' = MoveUp(current_path)
                         /\ UNCHANGED <<lpc, project_file>>
        Blobs(nav) ==
            IF fault = "blob_error" \/ ~nav.ok THEN 0
            ELSE FirstManifestBlob(commit_tree[nav.at])
    IN
    /\ loc_mode = "snapshot" /\ lpc = "search"
    /\ loc_steps < MaxSteps
    /\ loc_steps' = loc_steps + 1
    /\ \E nav \in {Navigate(commit_tree, <<>>, current_path, 1)} :
          \E k \in {Blobs(nav)} : Search(nav, k)
    /\ UNCHANGED <<commit_tree, loc_mode, cs_file, diff_index, project_changes>>

RECURSIVE find_project_file(_, _, _)
\* find_project_file as its caller sees it: the manifest returned for a
\* search that is at current_path, fault being what the repository access
\* does in the iteration at hand
find_project_file(tree, current, fault) ==
    LET nav == Navigate(tree, <<>>, current, 1) IN
    IF fault = "git_error" \/ ~nav.ok THEN NoPath
    ELSE LET k == IF fault = "blob_error" THEN 0
                  ELSE FirstManifestBlob(tree[nav.at]) IN
         IF k # 0 THEN SomePath(Append(current, tree[nav.at][k].name))
         ELSE IF current = <<>> THEN NoPath
         ELSE find_project_file(tree, Parent(current), "none")

(***************************************************************************)
(* analyze_branch_changes: the changed source files of a branch, by        *)
(* manifest                                                                *)
(***************************************************************************)
DiffItem(change_type, b_path) == [change_type |-> change_type, b_path |-> b_path]

\* the test of line 227: not deleted, a path, a name ending in .cs
IsChangedSource(diff_item) ==
    /\ diff_item.change_type # "D"
    /\ diff_item.b_path # <<>>
    /\ EndsWith(Lower(diff_item.b_path[Len(diff_item.b_path)]), CsSuffix)

\* project_changes[key].append(cs file) on a defaultdict(list)
AppendChange(changes, key, cs_file_rel_path) ==
    IF key \in DOMAIN changes
    THEN [changes EXCEPT ![key] = Append(@, cs_file_rel_path)]
    ELSE [k \in DOMAIN changes \cup {key} |->
            IF k = key THEN <<cs_file_rel_path>> ELSE changes[k]]

RECURSIVE ProjectChanges(_, _, _, _, _)
\* the loop of lines 225-237 from item i on; the access to the repository
\* fails in the first iteration of the search for the items in bad
ProjectChanges(tree, diff, i, bad, changes) ==
    IF i > Len(diff) THEN changes
    ELSE IF ~IsChangedSource(diff[i]) THEN ProjectChanges(tree, diff, i + 1, bad, changes)
    ELSE LET cs_file_rel_path == diff[i].b_path
             project_file_rel_path ==
                 find_project_file(tree, Parent(cs_file_rel_path),
                                   IF i \in bad THEN "git_error" ELSE "none")
         IN  ProjectChanges(tree, diff, i + 1, bad,
                 IF project_file_rel_path.some
                 THEN AppendChange(changes, project_file_rel_path.path, cs_file_rel_path)
                 ELSE changes)

\* analyze_branch_changes on a repository whose two branches exist and
\* have a comparison base
AnalyzeBranchChanges ==
    /\ loc_mode = "branch" /\ lpc = "diff"
    /\ \E bad \in FaultChoices(DOMAIN diff_index) :
          project_changes' = ProjectChanges(commit_tree, diff_index, 1, bad, <<>>)
    /\ lpc' = "returned"
    /\ UNCHANGED <<commit_tree, loc_mode, cs_file, current_path, project_file,
                   loc_faults, loc_steps, diff_index>>

(***************************************************************************)
(* find_project_file_on_disk: the locator on the file system               *)
(***************************************************************************)
\* Path.glob('*.csproj') of a directory: its entries whose name ends in
\* .csproj, in listing order
RECURSIVE SelectSuffix(_, _)
SelectSuffix(entries, suffix) ==
    IF entries = <<>> THEN <<>>
    ELSE IF EndsWith(Head(entries).name, suffix)
         THEN <<Head(entries)>> \o SelectSuffix(Tail(entries), suffix)
         ELSE SelectSuffix(Tail(entries), suffix)

GlobCsproj(d, dir) == SelectSuffix(d[dir], CsprojSuffix)

\* Path.resolve() of a directory entry: a link gives the file it points to
ResolveEntry(dir, e) == IF e.kind = "link" THEN e.target ELSE Append(dir, e.name)

\* one iteration of the while loop of find_project_file_on_disk.  fault is
\* "glob_error" when listing the directory raises, else "none"
DiskStep(fault) ==
    /\ loc_mode = "disk" /\ lpc = "search"
    /\ loc_steps < MaxSteps
    /\ loc_steps' = loc_steps + 1
    /\ IF fault = "glob_error"
       THEN /\ lpc' = "none"
            /\ loc_faults' = loc_faults \cup {fault}
            /\ UNCHANGED <<current_path, project_file>>
       ELSE LET csproj_files == GlobCsproj(disk, current_path) IN
            /\ UNCHANGED loc_faults
            /\ IF csproj_files # <<>>
               THEN /\ project_file' = SomePath(ResolveEntry(current_path, csproj_files[1]))
                    /\ lpc' = "found"
                    /\ UNCHANGED current_path
               ELSE IF current_path = Parent(current_path)
               THEN /\ lpc' = "none"
                    /\ UNCHANGED <<current_path, project_file>>
               ELSE /\ current_path' = MoveUp(current_path)
                    /\ UNCHANGED <<lpc, project_file>>
    /\ UNCHANGED <<commit_tree, loc_mode, cs_file, diff_index, project_changes>>

(***************************************************************************)
(* The locator run: a snapshot or a file system and a source file are      *)
(* drawn, the search loop runs                                             *)
(***************************************************************************)
Item(n, ty) == [name |-> n, type |-> ty]

Opt(cond, x) == IF cond THEN <<x>> ELSE <<>>

\* the items of a directory one level below the root of the snapshot
TopItems(c) ==
    Opt(c.manifest, Item(P_CSPROJ, "blob")) \o Opt(c.a # "none", Item(a_, c.a))
        \o <<Item(x_cs, "blob")>>

SubItems(c) == Opt(c.sub, Item(q_csproj, "blob")) \o <<Item(x_cs, "blob")>>

TopChoices == [manifest : BOOLEAN, a : {"none", "tree", "blob", "commit"}, sub : BOOLEAN]

\* a snapshot: the root holds SRC, root.csproj, src and x.cs (git stores the
\* items of a tree in byte order of their names); SRC and src hold P.CSPROJ,
\* a and x.cs; a holds q.csproj and x.cs
SnapshotOf(kSRC, rootManifest, ksrc, cSRC, csrc) ==
    LET dirs == {<<>>}
                \cup (IF kSRC = "tree" THEN {<<SRC_>>} ELSE {})
                \cup (IF kSRC = "tree" /\ cSRC.a = "tree" THEN {<<SRC_, a_>>} ELSE {})
                \cup (IF ksrc = "tree" THEN {<<src_>>} ELSE {})
                \cup (IF ksrc = "tree" /\ csrc.a = "tree" THEN {<<src_, a_>>} ELSE {})
    IN  [d \in dirs |->
            IF d = <<>>
            THEN Opt(kSRC # "none", Item(SRC_, kSRC))
                    \o Opt(rootManifest, Item(root_csproj, "blob"))
                    \o Opt(ksrc # "none", Item(src_, ksrc))
                    \o <<Item(x_cs, "blob")>>
            ELSE IF d = <<SRC_>> THEN TopItems(cSRC)
            ELSE IF d = <<src_>> THEN TopItems(csrc)
            ELSE IF d = <<SRC_, a_>> THEN SubItems(cSRC)
            ELSE SubItems(csrc)]

SnapshotTrees ==
    {SnapshotOf(kSRC, rootManifest, ksrc, cSRC, csrc) :
        kSRC \in {"none", "tree", "blob"}, rootManifest \in BOOLEAN,
        ksrc \in {"none", "tree", "blob", "commit"},
        cSRC \in TopChoices, csrc \in TopChoices}

SnapshotFiles == {<<x_cs>>, <<src_, x_cs>>, <<src_, a_, x_cs>>, <<SRC_, a_, x_cs>>}

EmptyTree == [d \in {<<>>} |-> <<>>]

\* the entries a directory of the locator's file system may hold besides its
\* sub-directory: no manifest, a manifest file, or a link named p.csproj to
\* the manifest /r/lib/real.csproj
ManifestEntries(m) ==
    IF m = "file" THEN <<Entry(p_csproj, "file", <<>>)>>
    ELSE IF m = "link" THEN <<Entry(p_csproj, "link", <<r_, lib_, real_csproj>>)>>
    ELSE <<>>

ManifestChoices == {"none", "file", "link"}

\* a file system /r/src/a with x.cs in each directory, and /r/lib/real.csproj
LocatorDiskOf(mRoot, mR, mSrc, mA) ==
    [d \in {<<>>, <<r_>>, <<r_, lib_>>, <<r_, src_>>, <<r_, src_, a_>>} |->
        IF d = <<>> THEN ManifestEntries(mRoot) \o <<Entry(r_, "dir", <<>>)>>
        ELSE IF d = <<r_>>
             THEN <<Entry(lib_, "dir", <<>>)>> \o ManifestEntries(mR)
                     \o <<Entry(src_, "dir", <<>>), Entry(x_cs, "file", <<>>)>>
        ELSE IF d = <<r_, lib_>> THEN <<Entry(real_csproj, "file", <<>>)>>
        ELSE IF d = <<r_, src_>>
             THEN <<Entry(a_, "dir", <<>>)>> \o ManifestEntries(mSrc)
                     \o <<Entry(x_cs, "file", <<>>)>>
        ELSE <<Entry(x_cs, "file", <<>>)>> \o ManifestEntries(mA)]

LocatorDisks ==
    {LocatorDiskOf(mRoot, mR, mSrc, mA) :
        mRoot \in {"none", "file"}, mR \in ManifestChoices,
        mSrc \in ManifestChoices, mA \in ManifestChoices}

DiskFiles == {<<r_, x_cs>>, <<r_, src_, x_cs>>, <<r_, src_, a_, x_cs>>}

\* the file at path is a blob of the snapshot
IsBlobOf(tree, path) ==
    /\ path # <<>>
    /\ Parent(path) \in DOMAIN tree
    /\ \E i \in DOMAIN tree[Parent(path)] :
          tree[Parent(path)][i] = Item(path[Len(path)], "blob")

\* the changes a diff may hold: source files changed, added and deleted,
\* and a manifest changed
DiffItems ==
    {DiffItem(ct, f) : ct \in {"M", "D"}, f \in {<<x_cs>>, <<src_, x_cs>>}}
        \cup {DiffItem("A", <<src_, a_, x_cs>>), DiffItem("R", <<SRC_, a_, x_cs>>),
              DiffItem("M", <<root_csproj>>)}

MaxDiff == 2

\* the diffs of at most MaxDiff items against a feature revision: no path
\* twice, and what is not deleted is a file of the revision
DiffsOf(tree) ==
    {d \in UNION {[1..n -> DiffItems] : n \in 0..MaxDiff} :
        /\ \A i, j \in DOMAIN d : i # j => d[i].b_path # d[j].b_path
        /\ \A i \in DOMAIN d : d[i].change_type # "D" => IsBlobOf(tree, d[i].b_path)}

LocInit ==
    /\ loc_mode \in {"snapshot", "disk", "branch"}
    /\ IF loc_mode = "snapshot"
       THEN /\ commit_tree \in SnapshotTrees
            /\ cs_file \in SnapshotFiles
            /\ disk = EmptyDisk
            /\ diff_index = <<>>
       ELSE IF loc_mode = "disk"
       THEN /\ disk \in LocatorDisks
            /\ cs_file \in DiskFiles
            /\ commit_tree = EmptyTree
            /\ diff_index = <<>>
       ELSE /\ commit_tree \in SnapshotTrees
            /\ diff_index \in DiffsOf(commit_tree)
            /\ cs_file = <<>>
            /\ disk = EmptyDisk
    /\ manifests = NoFiles
    /\ sources = NoFiles
    /\ current_path = Parent(cs_file)
    /\ project_file = NoPath
    /\ loc_faults = {}
    /\ loc_steps = 0
    /\ project_changes = <<>>
    /\ lpc = IF loc_mode = "branch" THEN "diff" ELSE "search"

LocIdle ==
    /\ commit_tree = EmptyTree
    /\ loc_mode = "idle"
    /\ cs_file = <<>>
    /\ current_path = <<>>
    /\ project_file = NoPath
    /\ loc_faults = {}
    /\ loc_steps = 0
    /\ diff_index = <<>>
    /\ project_changes = <<>>
    /\ lpc = "idle"

SnapshotLocate ==
    /\ \E fault \in {"none", "git_error", "blob_error"} : SnapshotStep(fault)
    /\ UNCHANGED notLoc

DiskLocate ==
    /\ \E fault \in {"none", "glob_error"} : DiskStep(fault)
    /\ UNCHANGED notLoc

BranchChanges ==
    /\ AnalyzeBranchChanges
    /\ UNCHANGED notLoc

LocNext == SnapshotLocate \/ DiskLocate \/ BranchChanges

(***************************************************************************)
(* The lexical run: a text and an offset are drawn, the two functions are  *)
(* applied                                                                 *)
(***************************************************************************)
EnclosingSampleText ==
    <<"c", "l", "a", "s", "s", " ", "A", " ", "{", "\n", ".", ".", ".", "\n",
      "}", " ", "c", "l", "a", "s", "s", " ", "B", " ", "{", " ", "v", "o", "i",
      "d", " ", "M", "(", ")", "{", " ", "\"", "u", "s", "p", "_", "X", "\"",
      " ", "}", " ", "}">>

DeclarationSampleText ==
    <<"p", "u", "b", "l", "i", "c", " ", "c", "l", "a", "s", "s", " ", "F", "o",
      "o", "<", "T", ">", " ", ":", " ", "B", "a", "s", "e", " ", "{">>

DuplicateSampleText ==
    <<"c", "l", "a", "s", "s", " ", "A", " ", "{", "\n", "}", "\n", "c", "l", "a", "s", "s", " ", "A", "<", "T", ">", " ", "{">>

\* two declarations of different names, each with a body
TwoDeclarationsSampleText ==
    <<"c", "l", "a", "s", "s", " ", "A", " ", "{", "\n", "x", "\n", "}", "\n",
      "e", "n", "u", "m", " ", "B", "<", "T", ">", " ", "{", " ", "y", " ", "}">>

\* the pieces the other texts are put together from
Pieces == {<<"c", "l", "a", "s", "s", " ", "A">>,
           <<"p", "u", "b", "l", "i", "c", " ">>,
           <<"B", " ">>,
           <<",">>,
           <<"<", "T", ">">>,
           <<"\n">>,
           <<"{">>,
           <<"}", " ">>,
           <<" ">>}

MaxPieces == 3

RECURSIVE Flatten(_)
Flatten(ps) == IF ps = <<>> THEN <<>> ELSE Head(ps) \o Flatten(Tail(ps))

PieceTexts == {Flatten(ps) : ps \in UNION {[1..n -> Pieces] : n \in 0..MaxPieces}}

TextInputs ==
    PieceTexts \cup {EnclosingSampleText, DeclarationSampleText, DuplicateSampleText,
                     TwoDeclarationsSampleText}

TextInit ==
    /\ content \in TextInputs
    /\ match_start_index = 0
    /\ found_types = {}
    /\ enclosing = NoName
    /\ tpc = "input"

ExtractTypes ==
    /\ tpc = "input"
    /\ found_types' = extract_type_names_from_content(content)
    /\ tpc' = "extracted"
    /\ UNCHANGED <<content, match_start_index, enclosing>>
    /\ UNCHANGED notText

FindEnclosing ==
    /\ tpc = "input"
    /\ \E k \in 0..Len(content) :
          /\ match_start_index' = k
          /\ enclosing' = find_enclosing_type_name(content, k)
    /\ tpc' = "enclosed"
    /\ UNCHANGED <<content, found_types>>
    /\ UNCHANGED notText

TextIdle ==
    /\ content = <<>>
    /\ match_start_index = 0
    /\ found_types = {}
    /\ enclosing = NoName
    /\ tpc = "idle"

TextNext == ExtractTypes \/ FindEnclosing

(***************************************************************************)
(* The file system as pathlib sees it                                      *)
(***************************************************************************)
NoEntry == Entry(<<>>, "none", <<>>)

RECURSIVE FindEntry(_, _)
FindEntry(entries, name) ==
    IF entries = <<>> THEN NoEntry
    ELSE IF Head(entries).name = name THEN Head(entries)
    ELSE FindEntry(Tail(entries), name)

\* the entry called name of the directory dir
EntryAt(dir, name) == IF dir \in DOMAIN disk THEN FindEntry(disk[dir], name) ELSE NoEntry

DotDot == <<".", ".">>

RECURSIVE Realpath(_, _, _)
\* os.path.realpath, not strict: the components are taken from left to
\* right, ".." drops the last one, a link is replaced by what it points to
Realpath(acc, rest, fuel) ==
    IF rest = <<>> THEN acc
    ELSE IF Head(rest) = DotDot THEN Realpath(Parent(acc), Tail(rest), fuel)
    ELSE LET e == EntryAt(acc, Head(rest))
         IN  IF e.kind = "link" /\ fuel > 0
             THEN Realpath(<<>>, e.target \o Tail(rest), fuel - 1)
             ELSE Realpath(Append(acc, Head(rest)), Tail(rest), fuel)

\* Path.resolve()
Resolve(p) == Realpath(<<>>, p, Cardinality(DOMAIN disk))

\* what os.stat finds at p: "file", "dir" or "none"
KindOf(p) ==
    LET Found(k) == IF k = "link" THEN "none" ELSE k
        At(q) == IF q = <<>> THEN "dir" ELSE Found(EntryAt(Parent(q), q[Len(q)]).kind)
    IN  At(Resolve(p))

\* Path.exists(), Path.is_dir(), Path.is_file()
Exists(p) == KindOf(p) # "none"

\* Path.samefile(): the same file after the links are followed
SameFile(p, q) == Resolve(p) = Resolve(q)

RECURSIVE PathParts(_, _)
\* the components of a path string: split at "/", the empty ones and "."
\* dropped; cur is the component being read
PathParts(s, cur) ==
    LET done == IF cur \in {<<>>, <<".">>} THEN <<>> ELSE <<cur>>
    IN  IF s = <<>> THEN done
        ELSE IF Head(s) = "/" THEN done \o PathParts(Tail(s), <<>>)
        ELSE PathParts(Tail(s), Append(cur, Head(s)))

\* parent / include_: an absolute include_ replaces the parent
JoinPath(parent, include_) ==
    IF include_ # <<>> /\ include_[1] = "/" THEN PathParts(include_, <<>>)
    ELSE parent \o PathParts(include_, <<>>)

RECURSIVE LastDot(_, _)
LastDot(name, i) == IF i = 0 \/ name[i] = "." THEN i ELSE LastDot(name, i - 1)

\* Path.stem: the name without its last suffix
Stem(name) ==
    LET i == LastDot(name, Len(name))
    IN  IF i <= 1 THEN name ELSE SubSeq(name, 1, i - 1)

PathsOf(dir, entries) == [i \in DOMAIN entries |-> Append(dir, entries[i].name)]

RECURSIVE RGlob(_, _)
RECURSIVE RGlobSubdirs(_, _, _)
RGlobSubdirs(dir, entries, suffix) ==
    IF entries = <<>> THEN <<>>
    ELSE (IF Head(entries).kind = "dir"
          THEN RGlob(Append(dir, Head(entries).name), suffix) ELSE <<>>)
         \o RGlobSubdirs(dir, Tail(entries), suffix)

\* list(dir.rglob('*' + suffix)): the entries of dir whose name ends in
\* suffix, then those of each of its directories in turn; links to
\* directories are not entered
RGlob(dir, suffix) ==
    IF dir \notin DOMAIN disk THEN <<>>
    ELSE PathsOf(dir, SelectSuffix(disk[dir], suffix))
            \o RGlobSubdirs(dir, disk[dir], suffix)

(***************************************************************************)
(* find_consumers: the patterns                                            *)
(***************************************************************************)
Contains(s, w) == \E i \in 1..Len(s) : StartsWith(s, i, w)

\* [A-Za-z0-9_], the \w of re on the characters of the model
IsWordChar(c) == c \in Letters \cup Digits \cup {"_"}

WordAt(t, i) == i >= 1 /\ i <= Len(t) /\ IsWordChar(t[i])

\* \b between t[i-1] and t[i]
WordBoundary(t, i) == WordAt(t, i - 1) # WordAt(t, i)

RECURSIVE SubNamespaceEnd(_, _)
\* greedy [A-Za-z0-9_.]* from index i
SubNamespaceEnd(t, i) ==
    IF i <= Len(t) /\ (IsWordChar(t[i]) \/ t[i] = ".")
    THEN SubNamespaceEnd(t, i + 1) ELSE i

GlobalWord == <<"g", "l", "o", "b", "a", "l">>

UsingWord == <<"u", "s", "i", "n", "g">>

\* the character of t at index i, "" outside t
CharAt(t, i) == IF i >= 1 /\ i <= Len(t) THEN t[i] ELSE ""

\* \s*(?:global\s+)?using\s+NS(?:\.[A-Za-z0-9_.]+)?\s*; matches in t at q
UsingDirectiveAt(t, q, ns) ==
    LET Semicolon(i) == CharAt(t, SkipSpaces(t, i)) = ";"
        AfterNamespace(i) ==
            IF CharAt(t, i) = "." /\ SubNamespaceEnd(t, i + 1) > i + 1
            THEN Semicolon(SubNamespaceEnd(t, i + 1))
            ELSE Semicolon(i)
        Namespace(i) == StartsWith(t, i, ns) /\ AfterNamespace(i + Len(ns))
        AfterUsing(i) == IsSpace(CharAt(t, i)) /\ Namespace(SkipSpaces(t, i))
        Using(i) == StartsWith(t, i, UsingWord) /\ AfterUsing(i + Len(UsingWord))
        Global(i) ==
            IF StartsWith(t, i, GlobalWord) /\ IsSpace(CharAt(t, i + Len(GlobalWord)))
            THEN Using(SkipSpaces(t, i + Len(GlobalWord)))
            ELSE Using(i)
    IN  Global(SkipSpaces(t, q))

\* using_pattern.search(content): (?:^|;|\{) then the directive, MULTILINE
using_pattern(t, ns) ==
    \E p \in 1..(Len(t) + 1) :
        \/ IsLineStart(t, p) /\ UsingDirectiveAt(t, p, ns)
        \/ p <= Len(t) /\ t[p] \in {";", "{"} /\ UsingDirectiveAt(t, p + 1, ns)

\* class_pattern.search(content): \bNAME\b
class_pattern(t, name) ==
    \E i \in 1..Len(t) :
        WordBoundary(t, i) /\ StartsWith(t, i, name) /\ WordBoundary(t, i + Len(name))

\* method_pattern.search(content): \.\s*NAME\s*\(
method_pattern(t, name) ==
    \E i \in 1..Len(t) :
        /\ t[i] = "."
        /\ LET Name(j) ==
                   /\ StartsWith(t, j, name)
                   /\ CharAt(t, SkipSpaces(t, j + Len(name))) = "("
           IN  Name(SkipSpaces(t, i + 1))

(***************************************************************************)
(* __main__: the target of --target-project                                *)
(***************************************************************************)
\* target_csproj_abs_path of the validation, NoPath when the validation
\* fails: a directory gives its first *.csproj entry as listed, a file
\* whose suffix is .csproj in any case gives the resolved path
TargetOfArgument(arg) ==
    LET First(found) == IF found = <<>> THEN NoPath ELSE SomePath(found[1])
        Target(target_path_input, kind) ==
            IF kind = "dir"
            THEN First(PathsOf(target_path_input, GlobCsproj(disk, target_path_input)))
            ELSE IF /\ kind = "file"
                    /\ EndsWith(Lower(target_path_input[Len(target_path_input)]),
                                CsprojSuffix)
            THEN SomePath(target_path_input)
            ELSE NoPath
    IN  Target(Resolve(arg), KindOf(arg))

(***************************************************************************)
(* find_consumers                                                          *)
(***************************************************************************)
\* a mutation of DictInsert: a list that takes a key again
DictInsert_Append(keys, k) == Append(keys, k)

\* dict[key] = value on the keys, kept in insertion order
DictInsert(keys, k) ==
    IF \E i \in DOMAIN keys : keys[i] = k THEN keys ELSE Append(keys, k)


\* what may fail in a step of find_consumers: nothing in the call on the
\* repaired scope
FunnelFaults(S) == IF funnel_run > 1 THEN {{}} ELSE FaultChoices(S)

\* step 1: the resolved manifests of the scope other than the target
PotentialConsumers(all_csproj_files) ==
    LET resolved == [i \in DOMAIN all_csproj_files |-> Resolve(all_csproj_files[i])]
        NotTarget(p) == p # target_csproj_path
    IN  SelectSeq(resolved, NotTarget)

\* include_.replace('\\', '/')
ReplaceBackslash(s) == [i \in DOMAIN s |-> IF s[i] = "\\" THEN "/" ELSE s[i]]

\* '$(' in include_ and ')' in include_
HasPlaceholder(include_) ==
    Contains(include_, <<"$", "(">>) /\ Contains(include_, <<")">>)

\* a mutation of ReferenceMatches: every reference counts as one to the target
ReferenceMatches_Always(consumer_csproj_abs, include_) == TRUE

\* the reference resolves to a file that exists and is the target
ReferenceMatches(consumer_csproj_abs, include_) ==
    LET Same(ref_path_abs) ==
            /\ Exists(ref_path_abs)
            /\ Exists(target_csproj_path)
            /\ SameFile(ref_path_abs, target_csproj_path)
    IN  Same(Resolve(JoinPath(Parent(consumer_csproj_abs), include_)))

RECURSIVE ReferencesTarget(_, _)
\* the loop over refs: an empty Include and a placeholder are passed over,
\* the first matching reference ends the loop
ReferencesTarget(consumer_csproj_abs, refs) ==
    IF refs = <<>> THEN FALSE
    ELSE LET include_ == ReplaceBackslash(Head(refs))
         IN  IF /\ Head(refs) # <<>>
                /\ ~HasPlaceholder(include_)
                /\ ReferenceMatches(consumer_csproj_abs, include_)
             THEN TRUE
             ELSE ReferencesTarget(consumer_csproj_abs, Tail(refs))

\* ET.parse raises on a path that holds no readable, well-formed manifest
ParseFails(consumer_csproj_abs, bad) ==
    \/ consumer_csproj_abs \in bad
    \/ consumer_csproj_abs \notin DOMAIN manifests
    \/ ~manifests[consumer_csproj_abs].ok

\* the references of a manifest: those of the msb convention, the plain
\* ones when there is none
ReferencesOf(consumer_csproj_abs) ==
    LET m == manifests[consumer_csproj_abs]
    IN  IF m.msb # <<>> THEN m.msb ELSE m.plain

RECURSIVE DirectConsumers_StopAtError(_, _, _)
\* step 2 as a loop that a manifest that fails to parse would end
DirectConsumers_StopAtError(potential, bad, acc) ==
    IF potential = <<>> THEN acc
    ELSE LET c == Head(potential)
         IN  IF ParseFails(c, bad) THEN acc
             ELSE DirectConsumers_StopAtError(Tail(potential), bad,
                      IF ReferencesTarget(c, ReferencesOf(c))
                      THEN DictInsert(acc, c) ELSE acc)

RECURSIVE DirectConsumers(_, _, _)
\* step 2: the keys of direct_consumers, manifests in bad fail to parse
DirectConsumers(potential, bad, acc) ==
    IF potential = <<>> THEN acc
    ELSE LET c == Head(potential)
             hit == ~ParseFails(c, bad) /\ ReferencesTarget(c, ReferencesOf(c))
         IN  DirectConsumers(Tail(potential), bad,
                             IF hit THEN DictInsert(acc, c) ELSE acc)

\* a mutation of NewConsumerData: the files of the directory from the start
NewConsumerData_Listed(consumer_csproj_abs) ==
    [consumer_name |-> Stem(consumer_csproj_abs[Len(consumer_csproj_abs)]),
     relevant_files |-> RGlob(Parent(consumer_csproj_abs), CsSuffix)]

\* the dict a consumer gets at step 2
NewConsumerData(consumer_csproj_abs) ==
    [consumer_name |-> Stem(consumer_csproj_abs[Len(consumer_csproj_abs)]),
     relevant_files |-> <<>>]

\* read_text raises on a path that holds no readable source file
ReadFails(cs_file_abs, bad) ==
    cs_file_abs \in bad \/ Resolve(cs_file_abs) \notin DOMAIN sources

\* a mutation of StageMatch: every stage searches for the import
StageMatch_Namespace(stage, t) == using_pattern(t, target_namespace)

\* the search of a stage in a text
StageMatch(stage, t) ==
    IF stage = "namespace" THEN using_pattern(t, target_namespace)
    ELSE IF stage = "type" THEN class_pattern(t, class_name)
    ELSE method_pattern(t, method_name)

\* a mutation of MatchFiles: every file that can be read counts as a match
MatchFiles_Readable(stage, files, bad) ==
    LET Hit(f) == ~ReadFails(f, bad) IN SelectSeq(files, Hit)

\* the files of a list that can be read and match, in the order of the list
MatchFiles(stage, files, bad) ==
    LET Hit(f) == ~ReadFails(f, bad) /\ StageMatch(stage, sources[Resolve(f)])
    IN  SelectSeq(files, Hit)

\* not target_namespace or target_namespace.startswith("NAMESPACE_ERROR_")
NamespaceErrorPrefix ==
    <<"N", "A", "M", "E", "S", "P", "A", "C", "E", "_", "E", "R", "R", "O", "R", "_">>

\* a mutation of NamespaceUnreliable: the sentinel counts as a namespace
NamespaceUnreliable_EmptyOnly == target_namespace = <<>>

NamespaceUnreliable ==
    target_namespace = <<>> \/ StartsWith(target_namespace, 1, NamespaceErrorPrefix)

\* format_results
format_results(consumer_dict, data) ==
    [i \in DOMAIN consumer_dict |->
        [consumer_path |-> consumer_dict[i],
         consumer_name |-> data[consumer_dict[i]].consumer_name,
         relevant_files |-> data[consumer_dict[i]].relevant_files]]

\* the records a stage leaves in the history, one per survivor
RecordsOf(stage, keys, data) ==
    {<<stage, keys[i], data[keys[i]].relevant_files>> : i \in DOMAIN keys}

\* a mutation of FilesToCheck: every stage scans the whole listing again
FilesToCheck_Listing(stage, consumer_path_abs, data, cache) ==
    IF Parent(consumer_path_abs) \in DOMAIN cache
    THEN cache[Parent(consumer_path_abs)]
    ELSE data[consumer_path_abs].relevant_files

\* the files a stage scans for a consumer: the listing of its directory at
\* the namespace stage, the files the previous stage left it afterwards
FilesToCheck(stage, consumer_path_abs, data, cache) ==
    IF stage = "namespace" THEN cache[Parent(consumer_path_abs)]
    ELSE data[consumer_path_abs].relevant_files

\* the reads and the read errors of one scan
ReadsOf(stage, files) == {<<stage, files[i]>> : i \in DOMAIN files}

ReadFaultsOf(files, bad) ==
    {<<"read", files[i]>> : i \in {j \in DOMAIN files : ReadFails(files[j], bad)}}

\* a mutation of CacheMiss: the cache is never asked
CacheMiss_Always(consumer_dir_abs, cache) == TRUE

\* consumer_dir_abs not in cs_file_cache
CacheMiss(consumer_dir_abs, cache) == consumer_dir_abs \notin DOMAIN cache

\* cs_file_cache[consumer_dir_abs] = files
CacheStore(cache, consumer_dir_abs, files) ==
    [d \in DOMAIN cache \cup {consumer_dir_abs} |->
        IF d = consumer_dir_abs THEN files ELSE cache[d]]

RECURSIVE NamespaceLoop(_, _, _, _)
\* step 3, the loop over direct_consumers; st holds what the loop updates
NamespaceLoop(keys, st, badDirs, badFiles) ==
    IF keys = <<>> THEN st
    ELSE LET consumer_path_abs == Head(keys)
             consumer_dir_abs == Parent(consumer_path_abs)
             miss == CacheMiss(consumer_dir_abs, st.cache)
             fails == miss /\ consumer_dir_abs \in badDirs
             Update(cache, files, namespace_match_files) ==
                 [data |-> IF namespace_match_files # <<>>
                           THEN [st.data EXCEPT ![consumer_path_abs].relevant_files =
                                                    namespace_match_files]
                           ELSE st.data,
                  keys |-> IF namespace_match_files # <<>>
                           THEN DictInsert(st.keys, consumer_path_abs) ELSE st.keys,
                  cache |-> cache,
                  listed |-> IF miss THEN Append(st.listed, consumer_dir_abs) ELSE st.listed,
                  reads |-> st.reads \cup ReadsOf("namespace", files),
                  faults |-> st.faults \cup ReadFaultsOf(files, badFiles)
                                \cup (IF fails THEN {<<"list", consumer_dir_abs>>} ELSE {})]
             Scan(cache, files) ==
                 Update(cache, files, MatchFiles("namespace", files, badFiles))
             Visit(cache) ==
                 Scan(cache, FilesToCheck("namespace", consumer_path_abs, st.data, cache))
         IN  NamespaceLoop(Tail(keys),
                 Visit(IF miss
                       THEN CacheStore(st.cache, consumer_dir_abs,
                                IF fails THEN <<>> ELSE RGlob(consumer_dir_abs, CsSuffix))
                       ELSE st.cache),
                 badDirs, badFiles)

RECURSIVE NarrowLoop(_, _, _, _)
\* steps 4 and 5, the loop over the survivors of the previous stage
NarrowLoop(stage, keys, st, badFiles) ==
    IF keys = <<>> THEN st
    ELSE LET consumer_path_abs == Head(keys)
             Update(files_to_check, match_files) ==
                 [data |-> IF match_files # <<>>
                           THEN [st.data EXCEPT ![consumer_path_abs].relevant_files =
                                                    match_files]
                           ELSE st.data,
                  keys |-> IF match_files # <<>>
                           THEN DictInsert(st.keys, consumer_path_abs) ELSE st.keys,
                  reads |-> st.reads \cup ReadsOf(stage, files_to_check),
                  faults |-> st.faults \cup ReadFaultsOf(files_to_check, badFiles)]
             Scan(files_to_check) ==
                 Update(files_to_check, MatchFiles(stage, files_to_check, badFiles))
         IN  NarrowLoop(stage, Tail(keys),
                 Scan(FilesToCheck(stage, consumer_path_abs, st.data, cs_file_cache)),
                 badFiles)

\* a mutation of ReturnsAfterNamespace: a method filter alone keeps the
\* run going
ReturnsAfterNamespace_AnyFilter(namespace) ==
    namespace = <<>> \/ (class_name = <<>> /\ method_name = <<>>)

\* the two returns of lines 614-618: no survivor, or no type filter
ReturnsAfterNamespace(namespace) == namespace = <<>> \/ class_name = <<>>

\* a mutation of NamespaceStageResult: the fallback whatever the filter
NamespaceStageResult_Fallback(direct, namespace, data) ==
    IF namespace = <<>> THEN format_results(direct, data)
    ELSE format_results(namespace, data)

\* what find_consumers returns after step 3 when it returns there
NamespaceStageResult(direct, namespace, data) ==
    IF namespace = <<>>
    THEN IF class_name = <<>> THEN format_results(direct, data) ELSE <<>>
    ELSE format_results(namespace, data)

\* the reads of the stage that failed, as the history of failures shows
\* them: a file is read at a stage only when it passed the stages before
NewReadFaults(stage, faults) ==
    {<<stage, x[2]>> : x \in {y \in faults \ funnel_faults : y[1] = "read"}}

\* the validation of --target-project in __main__; --method-name is dropped
\* when --class-name is not given
FunnelTarget ==
    /\ fpc = "main"
    /\ LET Enter(t) ==
               /\ target_csproj_path' = t.path
               /\ fpc' = IF t.some THEN "step1" ELSE "exit"
       IN  Enter(TargetOfArgument(target_project))
    /\ method_name' = IF class_name = <<>> THEN <<>> ELSE method_name
    /\ UNCHANGED <<target_project, search_scope_path, target_namespace, class_name,
                   potential_consumers, direct_consumers,
                   namespace_consumers, class_consumers, method_consumers,
                   consumer_data, cs_file_cache, final_consumers_data, recorded,
                   listed, reads, funnel_faults, stage_faults, funnel_run,
                   first_result>>
    /\ UNCHANGED notFunnel

\* step 1 of find_consumers; the listing of the scope may raise
FunnelScan ==
    /\ fpc = "step1"
    /\ \E fault \in (IF funnel_run > 1 THEN {"none"} ELSE {"none", "scan_error"}) :
        IF fault = "scan_error"
        THEN /\ final_consumers_data' = <<>>
             /\ funnel_faults' = funnel_faults \cup {<<"scan", search_scope_path>>}
             /\ fpc' = "done"
             /\ UNCHANGED potential_consumers
        ELSE /\ potential_consumers' =
                    PotentialConsumers(RGlob(search_scope_path, CsprojSuffix))
             /\ fpc' = "step2"
             /\ UNCHANGED <<final_consumers_data, funnel_faults>>
    /\ UNCHANGED <<target_project, target_csproj_path, search_scope_path,
                   target_namespace, class_name, method_name, direct_consumers,
                   namespace_consumers, class_consumers, method_consumers,
                   consumer_data, cs_file_cache, recorded, listed, reads,
                   stage_faults, funnel_run, first_result>>
    /\ UNCHANGED notFunnel

\* step 2 of find_consumers, and the return when no manifest refers to the
\* target
FunnelReferences ==
    /\ fpc = "step2"
    /\ \E bad \in FunnelFaults(Range(potential_consumers)) :
        LET Leave(direct, data) ==
                /\ direct_consumers' = direct
                /\ consumer_data' = data
                /\ recorded' = RecordsOf("reference", direct, data)
                /\ funnel_faults' = funnel_faults \cup
                       {<<"parse", c>> : c \in {x \in Range(potential_consumers) :
                                                    ParseFails(x, bad)}}
                /\ IF direct = <<>>
                   THEN final_consumers_data' = <<>> /\ fpc' = "done"
                   ELSE UNCHANGED final_consumers_data /\ fpc' = "step3"
            Fill(direct) == Leave(direct, [c \in Range(direct) |-> NewConsumerData(c)])
        IN  Fill(DirectConsumers(potential_consumers, bad, <<>>))
    /\ UNCHANGED <<target_project, target_csproj_path, search_scope_path,
                   target_namespace, class_name, method_name, potential_consumers,
                   namespace_consumers, class_consumers, method_consumers,
                   cs_file_cache, listed, reads, stage_faults, funnel_run,
                   first_result>>
    /\ UNCHANGED notFunnel

\* step 3 of find_consumers, and the returns that follow it
FunnelNamespace ==
    /\ fpc = "step3"
    /\ \E badDirs \in FunnelFaults({Parent(c) : c \in Range(direct_consumers)}),
          badFiles \in FunnelFaults(Range(RGlob(search_scope_path, CsSuffix))) :
        LET Leave(st) ==
                /\ consumer_data' = st.data
                /\ namespace_consumers' = st.keys
                /\ cs_file_cache' = st.cache
                /\ listed' = st.listed
                /\ reads' = st.reads
                /\ funnel_faults' = st.faults
                /\ stage_faults' = stage_faults \cup NewReadFaults("namespace", st.faults)
                /\ recorded' = recorded \cup RecordsOf("namespace", st.keys, st.data)
                /\ IF ReturnsAfterNamespace(st.keys)
                   THEN /\ final_consumers_data' =
                               NamespaceStageResult(direct_consumers, st.keys, st.data)
                        /\ fpc' = "done"
                   ELSE UNCHANGED final_consumers_data /\ fpc' = "step4"
        IN  Leave(IF NamespaceUnreliable
                  THEN [data |-> consumer_data, keys |-> direct_consumers,
                        cache |-> cs_file_cache, listed |-> listed, reads |-> reads,
                        faults |-> funnel_faults]
                  ELSE NamespaceLoop(direct_consumers,
                           [data |-> consumer_data, keys |-> <<>>,
                            cache |-> cs_file_cache, listed |-> listed,
                            reads |-> reads, faults |-> funnel_faults],
                           badDirs, badFiles))
    /\ UNCHANGED <<target_project, target_csproj_path, search_scope_path,
                   target_namespace, class_name, method_name, potential_consumers,
                   direct_consumers, class_consumers, method_consumers,
                   funnel_run, first_result>>
    /\ UNCHANGED notFunnel

\* step 4 of find_consumers, and the returns that follow it
FunnelType ==
    /\ fpc = "step4"
    /\ \E badFiles \in FunnelFaults(Range(RGlob(search_scope_path, CsSuffix))) :
        LET Leave(st) ==
                /\ consumer_data' = st.data
                /\ class_consumers' = st.keys
                /\ reads' = st.reads
                /\ funnel_faults' = st.faults
                /\ stage_faults' = stage_faults \cup NewReadFaults("type", st.faults)
                /\ recorded' = recorded \cup RecordsOf("type", st.keys, st.data)
                /\ IF st.keys = <<>>
                   THEN final_consumers_data' = <<>> /\ fpc' = "done"
                   ELSE IF method_name = <<>>
                   THEN /\ final_consumers_data' = format_results(st.keys, st.data)
                        /\ fpc' = "done"
                   ELSE UNCHANGED final_consumers_data /\ fpc' = "step5"
        IN  Leave(NarrowLoop("type", namespace_consumers,
                      [data |-> consumer_data, keys |-> <<>>, reads |-> reads,
                       faults |-> funnel_faults], badFiles))
    /\ UNCHANGED <<target_project, target_csproj_path, search_scope_path,
                   target_namespace, class_name, method_name, potential_consumers,
                   direct_consumers, namespace_consumers, method_consumers,
                   cs_file_cache, listed, funnel_run, first_result>>
    /\ UNCHANGED notFunnel

\* step 5 of find_consumers
FunnelMethod ==
    /\ fpc = "step5"
    /\ \E badFiles \in FunnelFaults(Range(RGlob(search_scope_path, CsSuffix))) :
        LET Leave(st) ==
                /\ consumer_data' = st.data
                /\ method_consumers' = st.keys
                /\ reads' = st.reads
                /\ funnel_faults' = st.faults
                /\ stage_faults' = stage_faults \cup NewReadFaults("method", st.faults)
                /\ recorded' = recorded \cup RecordsOf("method", st.keys, st.data)
                /\ final_consumers_data' =
                       IF st.keys = <<>> THEN <<>> ELSE format_results(st.keys, st.data)
                /\ fpc' = "done"
        IN  Leave(NarrowLoop("method", class_consumers,
                      [data |-> consumer_data, keys |-> <<>>, reads |-> reads,
                       faults |-> funnel_faults], badFiles))
    /\ UNCHANGED <<target_project, target_csproj_path, search_scope_path,
                   target_namespace, class_name, method_name, potential_consumers,
                   direct_consumers, namespace_consumers, class_consumers,
                   cs_file_cache, listed, funnel_run, first_result>>
    /\ UNCHANGED notFunnel

UsingDirective == UsingWord \o <<" ">> \o target_namespace \o <<";">>

\* a text that a stage finds nothing in, and that passes the stages before
\* it: nothing, the import alone, the import and the type name
TextWithoutMatch(stage) ==
    IF stage = "namespace" THEN <<>>
    ELSE IF stage = "type" THEN UsingDirective
    ELSE UsingDirective \o <<"\n">> \o class_name

\* the scope with every item that failed put right: a manifest that did
\* not parse holds no reference, a file that could not be read holds no
\* match for the stage that read it
RepairedManifests ==
    [c \in DOMAIN manifests \cup {x[2] : x \in {y \in funnel_faults : y[1] = "parse"}} |->
        IF <<"parse", c>> \in funnel_faults \/ ~manifests[c].ok
        THEN [ok |-> TRUE, msb |-> <<>>, plain |-> <<>>]
        ELSE manifests[c]]

RepairedSources ==
    [f \in DOMAIN sources |->
        IF \E x \in stage_faults : Resolve(x[2]) = f
        THEN TextWithoutMatch((CHOOSE x \in stage_faults : Resolve(x[2]) = f)[1])
        ELSE sources[f]]

\* a call of find_consumers met errors on manifests or source files only:
\* the same call is made on the repaired scope, where nothing fails
FunnelReplay ==
    /\ fpc = "done" /\ funnel_run = 1
    /\ funnel_faults # {}
    /\ \A x \in funnel_faults : x[1] \in {"parse", "read"}
    /\ \A x \in funnel_faults : x[1] = "read" => Resolve(x[2]) \in DOMAIN sources
    /\ first_result' = final_consumers_data
    /\ funnel_run' = 2
    /\ manifests' = RepairedManifests
    /\ sources' = RepairedSources
    /\ potential_consumers' = <<>>
    /\ direct_consumers' = <<>>
    /\ namespace_consumers' = <<>>
    /\ class_consumers' = <<>>
    /\ method_consumers' = <<>>
    /\ consumer_data' = <<>>
    /\ cs_file_cache' = <<>>
    /\ final_consumers_data' = <<>>
    /\ recorded' = {}
    /\ listed' = <<>>
    /\ reads' = {}
    /\ funnel_faults' = {}
    /\ stage_faults' = {}
    /\ fpc' = "step1"
    /\ UNCHANGED <<target_project, target_csproj_path, search_scope_path,
                   target_namespace, class_name, method_name>>
    /\ UNCHANGED <<textVars, locVars, disk, sprocVars, reportVars, namespaceVars,
                   mainVars>>

\* a call of find_consumers with a method filter and no type filter met
\* no error: the same call is made without the method filter
FunnelRecall ==
    /\ fpc = "done" /\ funnel_run = 1
    /\ funnel_faults = {}
    /\ class_name = <<>> /\ method_name # <<>>
    /\ first_result' = final_consumers_data
    /\ funnel_run' = 3
    /\ method_name' = <<>>
    /\ potential_consumers' = <<>>
    /\ direct_consumers' = <<>>
    /\ namespace_consumers' = <<>>
    /\ class_consumers' = <<>>
    /\ method_consumers' = <<>>
    /\ consumer_data' = <<>>
    /\ cs_file_cache' = <<>>
    /\ final_consumers_data' = <<>>
    /\ recorded' = {}
    /\ listed' = <<>>
    /\ reads' = {}
    /\ fpc' = "step1"
    /\ UNCHANGED <<target_project, target_csproj_path, search_scope_path,
                   target_namespace, class_name, funnel_faults, stage_faults>>
    /\ UNCHANGED notFunnel

FunnelNext ==
    FunnelTarget \/ FunnelScan \/ FunnelReferences \/ FunnelNamespace
        \/ FunnelType \/ FunnelMethod \/ FunnelReplay \/ FunnelRecall

FunnelIdle ==
    /\ target_project = <<>>
    /\ target_csproj_path = <<>>
    /\ search_scope_path = <<>>
    /\ target_namespace = <<>>
    /\ class_name = <<>>
    /\ method_name = <<>>
    /\ potential_consumers = <<>>
    /\ direct_consumers = <<>>
    /\ namespace_consumers = <<>>
    /\ class_consumers = <<>>
    /\ method_consumers = <<>>
    /\ consumer_data = <<>>
    /\ cs_file_cache = <<>>
    /\ final_consumers_data = <<>>
    /\ recorded = {}
    /\ listed = <<>>
    /\ reads = {}
    /\ funnel_faults = {}
    /\ stage_faults = {}
    /\ funnel_run = 0
    /\ first_result = <<>>
    /\ fpc = "idle"

(***************************************************************************)
(* The funnel run: a scope, a target and the filters are drawn, --target-  *)
(* project is validated and find_consumers runs step by step               *)
(***************************************************************************)
\* the names of the scope /s: the target A, the projects B and C, the
\* project N inside C, the manifest lib/real.csproj that A/A.csproj may link
\* to, the second manifest B2.csproj of the directory B
Nm ==
    [s |-> <<"s">>,
     A |-> <<"A">>,
     B |-> <<"B">>,
     C |-> <<"C">>,
     N |-> <<"N">>,
     lib |-> <<"l", "i", "b">>,
     A_csproj |-> <<"A", ".", "c", "s", "p", "r", "o", "j">>,
     B_csproj |-> <<"B", ".", "c", "s", "p", "r", "o", "j">>,
     B2_csproj |-> <<"B", "2", ".", "c", "s", "p", "r", "o", "j">>,
     C_csproj |-> <<"C", ".", "c", "s", "p", "r", "o", "j">>,
     N_csproj |-> <<"N", ".", "c", "s", "p", "r", "o", "j">>,
     real_csproj |-> <<"r", "e", "a", "l", ".", "c", "s", "p", "r", "o", "j">>,
     copy_csproj |-> <<"c", "o", "p", "y", ".", "c", "s", "p", "r", "o", "j">>,
     alias_csproj |-> <<"a", "l", "i", "a", "s", ".", "c", "s", "p", "r", "o", "j">>,
     f1_cs |-> <<"f", "1", ".", "c", "s">>,
     f2_cs |-> <<"f", "2", ".", "c", "s">>,
     g_cs |-> <<"g", ".", "c", "s">>,
     h_cs |-> <<"h", ".", "c", "s">>]

\* the texts a source file may hold
Txt ==
    [full |-> <<"u", "s", "i", "n", "g", " ", "A", "c", "m", "e", ";", "\n", "n", "e", "w", " ", "W", "i", "d", "g", "e", "t", "(", ")", ".", "R", "e", "n", "d", "e", "r", "(", ")", ";">>,
     sub |-> <<"u", "s", "i", "n", "g", " ", "A", "c", "m", "e", ".", "C", "o", "r", "e", ";", "\n", "W", "i", "d", "g", "e", "t", " ", "w", ";">>,
     call |-> <<"W", "i", "d", "g", "e", "t", " ", "w", ";", "\n", "w", " ", ".", " ", "R", "e", "n", "d", "e", "r", " ", "(", ")", ";">>,
     near |-> <<"u", "s", "i", "n", "g", " ", "A", "c", "m", "e", "s", ";", "\n", "W", "i", "d", "g", "e", "t", "s", ".", "R", "e", "n", "d", "e", "r", "(", ")", ";">>,
     glob |-> <<"{", " ", "g", "l", "o", "b", "a", "l", " ", "u", "s", "i", "n", "g", " ", "A", "c", "m", "e", " ", ";", "\n", "x", ".", "R", "e", "n", "d", "e", "r", "(", ")", ";">>,
     none |-> <<"c", "l", "a", "s", "s", " ", "X", " ", "{", "}">>]

\* the Include attributes a reference may carry
Inc ==
    [plain |-> <<".", ".", "/", "A", "/", "A", ".", "c", "s", "p", "r", "o", "j">>,
     back |-> <<".", ".", "\\", "A", "\\", "A", ".", "c", "s", "p", "r", "o", "j">>,
     prop |-> <<"$", "(", "R", "o", "o", "t", ")", "/", "A", "/", "A", ".", "c", "s", "p", "r", "o", "j">>,
     other |-> <<".", ".", "/", "C", "/", "C", ".", "c", "s", "p", "r", "o", "j">>]

\* the namespace and the filters a call may carry
Arg ==
    [Acme |-> <<"A", "c", "m", "e">>,
     Widget |-> <<"W", "i", "d", "g", "e", "t">>,
     Render |-> <<"R", "e", "n", "d", "e", "r">>,
     NsError |-> <<"N", "A", "M", "E", "S", "P", "A", "C", "E", "_", "E", "R", "R", "O", "R", "_", "A">>]

Manifest(ok, msb, plain) == [ok |-> ok, msb |-> msb, plain |-> plain]

\* the manifest of a project, by the way it refers to the target
ManifestOf(ref) ==
    IF ref = "plain" THEN Manifest(TRUE, <<>>, <<Inc.other, Inc.plain>>)
    ELSE IF ref = "msb" THEN Manifest(TRUE, <<<<>>, Inc.back>>, <<>>)
    ELSE IF ref = "prop" THEN Manifest(TRUE, <<>>, <<Inc.prop>>)
    ELSE IF ref = "mixed" THEN Manifest(TRUE, <<Inc.other>>, <<Inc.plain>>)
    ELSE IF ref = "other" THEN Manifest(TRUE, <<>>, <<Inc.other>>)
    ELSE IF ref = "broken" THEN Manifest(FALSE, <<>>, <<>>)
    ELSE Manifest(TRUE, <<>>, <<>>)

\* the file system of a scenario sc
FunnelDiskOf(sc) ==
    LET dirs == {<<>>, <<Nm.s>>, <<Nm.s, Nm.A>>, <<Nm.s, Nm.B>>, <<Nm.s, Nm.C>>}
                    \cup (IF sc.linked THEN {<<Nm.s, Nm.lib>>} ELSE {})
                    \cup (IF sc.nested THEN {<<Nm.s, Nm.C, Nm.N>>} ELSE {})
    IN  [d \in dirs |->
            IF d = <<>> THEN <<Entry(Nm.s, "dir", <<>>)>>
            ELSE IF d = <<Nm.s>>
            THEN (IF sc.copy
                  THEN <<Entry(Nm.copy_csproj, "link", <<Nm.s, Nm.A, Nm.A_csproj>>)>>
                  ELSE <<>>)
                 \o <<Entry(Nm.A, "dir", <<>>), Entry(Nm.B, "dir", <<>>),
                      Entry(Nm.C, "dir", <<>>)>>
                 \o (IF sc.linked THEN <<Entry(Nm.lib, "dir", <<>>)>> ELSE <<>>)
                 \o (IF sc.alias
                     THEN <<Entry(Nm.alias_csproj, "link", <<Nm.s, Nm.B, Nm.B_csproj>>)>>
                     ELSE <<>>)
            ELSE IF d = <<Nm.s, Nm.A>>
            THEN IF sc.linked
                 THEN <<Entry(Nm.A_csproj, "link", <<Nm.s, Nm.lib, Nm.real_csproj>>)>>
                 ELSE <<Entry(Nm.A_csproj, "file", <<>>)>>
            ELSE IF d = <<Nm.s, Nm.lib>> THEN <<Entry(Nm.real_csproj, "file", <<>>)>>
            ELSE IF d = <<Nm.s, Nm.B>>
            THEN <<Entry(Nm.B_csproj, "file", <<>>)>>
                 \o (IF sc.twin THEN <<Entry(Nm.B2_csproj, "file", <<>>)>> ELSE <<>>)
                 \o <<Entry(Nm.f1_cs, "file", <<>>), Entry(Nm.f2_cs, "file", <<>>)>>
            ELSE IF d = <<Nm.s, Nm.C>>
            THEN <<Entry(Nm.g_cs, "file", <<>>)>>
                 \o (IF sc.nested THEN <<Entry(Nm.N, "dir", <<>>)>> ELSE <<>>)
                 \o <<Entry(Nm.C_csproj, "file", <<>>)>>
            ELSE <<Entry(Nm.N_csproj, "file", <<>>), Entry(Nm.h_cs, "file", <<>>)>>]

\* the file the target manifest is
TargetFileOf(sc) ==
    IF sc.linked THEN <<Nm.s, Nm.lib, Nm.real_csproj>> ELSE <<Nm.s, Nm.A, Nm.A_csproj>>

FunnelManifestsOf(sc) ==
    LET files == {TargetFileOf(sc), <<Nm.s, Nm.B, Nm.B_csproj>>, <<Nm.s, Nm.C, Nm.C_csproj>>}
                    \cup (IF sc.nested THEN {<<Nm.s, Nm.C, Nm.N, Nm.N_csproj>>} ELSE {})
                    \cup (IF sc.twin THEN {<<Nm.s, Nm.B, Nm.B2_csproj>>} ELSE {})
    IN  [f \in files |->
            IF f = TargetFileOf(sc) THEN ManifestOf(IF sc.selfRef THEN "plain" ELSE "none")
            ELSE IF f = <<Nm.s, Nm.B, Nm.B2_csproj>> THEN ManifestOf("plain")
            ELSE IF f = <<Nm.s, Nm.B, Nm.B_csproj>> THEN ManifestOf(sc.bRef)
            ELSE IF f = <<Nm.s, Nm.C, Nm.C_csproj>> THEN ManifestOf(sc.cRef)
            ELSE ManifestOf("other")]

FunnelSourcesOf(sc) ==
    LET files == {<<Nm.s, Nm.B, Nm.f1_cs>>, <<Nm.s, Nm.B, Nm.f2_cs>>, <<Nm.s, Nm.C, Nm.g_cs>>}
                    \cup (IF sc.nested THEN {<<Nm.s, Nm.C, Nm.N, Nm.h_cs>>} ELSE {})
    IN  [f \in files |->
            IF f = <<Nm.s, Nm.B, Nm.f1_cs>> THEN sc.f1
            ELSE IF f = <<Nm.s, Nm.B, Nm.f2_cs>> THEN sc.f2
            ELSE IF f = <<Nm.s, Nm.C, Nm.g_cs>> THEN sc.g
            ELSE Txt.full]

\* scopes that vary who the target is and how the manifests refer to it;
\* the run enters through the validation of --target-project
IdentityScenarios ==
    {[linked |-> linked, selfRef |-> selfRef, copy |-> copy, bRef |-> bRef,
      cRef |-> cRef, nested |-> FALSE, twin |-> FALSE, alias |-> FALSE, f1 |-> Txt.full, f2 |-> Txt.call,
      g |-> Txt.none, entry |-> "main", arg |-> arg, ns |-> Arg.Acme,
      cls |-> cls, mth |-> mth] :
        linked \in BOOLEAN, selfRef \in BOOLEAN, copy \in BOOLEAN,
        bRef \in {"plain", "msb", "prop", "mixed", "broken"},
        cRef \in {"plain", "none"},
        arg \in {<<Nm.s, Nm.A>>, <<Nm.s, Nm.A, Nm.A_csproj>>,
                 <<Nm.s, Nm.B, DotDot, Nm.A, Nm.A_csproj>>, <<Nm.s, Nm.B, Nm.f1_cs>>},
        cls \in {<<>>, Arg.Widget}, mth \in {<<>>, Arg.Render}}

\* scopes that vary what the source files hold; find_consumers is called
\* with the resolved target, as the git and sproc modes call it
ContentScenarios ==
    {[linked |-> FALSE, selfRef |-> FALSE, copy |-> FALSE, bRef |-> "plain",
      cRef |-> "plain", nested |-> nested, twin |-> FALSE, alias |-> FALSE, f1 |-> f1, f2 |-> f2,
      g |-> g,
      entry |-> "call", arg |-> <<>>, ns |-> ns, cls |-> cls, mth |-> mth] :
        nested \in BOOLEAN,
        f1 \in {Txt.full, Txt.sub, Txt.call, Txt.near, Txt.glob, Txt.none},
        f2 \in {Txt.call, Txt.sub, Txt.none},
        g \in {Txt.none, Txt.near, Txt.full},
        ns \in {Arg.Acme, <<>>, Arg.NsError},
        cls \in {<<>>, Arg.Widget}, mth \in {<<>>, Arg.Render}}

\* scopes where the two manifests B.csproj and B2.csproj share the directory
\* B and both refer to the target
SharedScenarios ==
    {[linked |-> FALSE, selfRef |-> FALSE, copy |-> FALSE, bRef |-> bRef,
      cRef |-> "none", nested |-> FALSE, twin |-> TRUE, alias |-> FALSE, f1 |-> f1, f2 |-> f2,
      g |-> Txt.none, entry |-> "call", arg |-> <<>>, ns |-> ns, cls |-> cls,
      mth |-> mth] :
        bRef \in {"plain", "other"},
        f1 \in {Txt.full, Txt.sub, Txt.none},
        f2 \in {Txt.call, Txt.none},
        ns \in {Arg.Acme, Arg.NsError},
        cls \in {<<>>, Arg.Widget}, mth \in {<<>>, Arg.Render}}

\* scopes where alias.csproj is a link to the manifest B.csproj, which the
\* scan of the scope so meets twice
AliasScenarios ==
    {[linked |-> FALSE, selfRef |-> FALSE, copy |-> FALSE, bRef |-> bRef,
      cRef |-> cRef, nested |-> FALSE, twin |-> FALSE, alias |-> TRUE, f1 |-> f1,
      f2 |-> Txt.call, g |-> Txt.none, entry |-> "call", arg |-> <<>>, ns |-> ns,
      cls |-> cls, mth |-> <<>>] :
        bRef \in {"plain", "other"}, cRef \in {"plain", "none"},
        f1 \in {Txt.full, Txt.none},
        ns \in {Arg.Acme, Arg.NsError},
        cls \in {<<>>, Arg.Widget}}

FunnelScenarios ==
    IdentityScenarios \cup ContentScenarios \cup SharedScenarios \cup AliasScenarios

FunnelInit ==
    \E sc \in FunnelScenarios :
        /\ disk = FunnelDiskOf(sc)
        /\ manifests = FunnelManifestsOf(sc)
        /\ sources = FunnelSourcesOf(sc)
        /\ target_project = sc.arg
        /\ target_csproj_path = IF sc.entry = "main" THEN <<>> ELSE TargetFileOf(sc)
        /\ search_scope_path = <<Nm.s>>
        /\ target_namespace = sc.ns
        /\ class_name = sc.cls
        /\ method_name = sc.mth
        /\ potential_consumers = <<>>
        /\ direct_consumers = <<>>
        /\ namespace_consumers = <<>>
        /\ class_consumers = <<>>
        /\ method_consumers = <<>>
        /\ consumer_data = <<>>
        /\ cs_file_cache = <<>>
        /\ final_consumers_data = <<>>
        /\ recorded = {}
        /\ listed = <<>>
        /\ reads = {}
        /\ funnel_faults = {}
        /\ stage_faults = {}
        /\ funnel_run = 1
        /\ first_result = <<>>
        /\ fpc = IF sc.entry = "main" THEN "main" ELSE "step1"

(***************************************************************************)
(* find_cs_files_referencing_sproc                                         *)
(***************************************************************************)
\* custom_sproc_regex_pattern: None or a string
NoPattern == [some |-> FALSE, text |-> <<>>]

SomePattern(t) == [some |-> TRUE, text |-> t]

Placeholder ==
    <<"{", "s", "p", "r", "o", "c", "_", "n", "a", "m", "e", "_", "p", "l",
      "a", "c", "e", "h", "o", "l", "d", "e", "r", "}">>

RECURSIVE SplitLast(_, _)
\* sproc_name_input.split('.')[-1]: what follows the last '.'
SplitLast(s, cur) ==
    IF s = <<>> THEN cur
    ELSE IF Head(s) = "." THEN SplitLast(Tail(s), <<>>)
    ELSE SplitLast(Tail(s), Append(cur, Head(s)))

RECURSIVE Replace(_, _, _)
\* str.replace(old, new): every occurrence, from the left
Replace(s, old, new) ==
    IF s = <<>> THEN <<>>
    ELSE IF StartsWith(s, 1, old)
         THEN new \o Replace(SubSeq(s, Len(old) + 1, Len(s)), old, new)
         ELSE <<Head(s)>> \o Replace(Tail(s), old, new)

\* ["'](?:SCHEMA\.)?NAME["'] where SCHEMA is one character of first and
\* then characters of [a-zA-Z0-9_]; re.escape makes NAME a literal
SchemaPattern(first, name) == [kind |-> "schema", first |-> first, text |-> name]

\* a template whose characters stand for themselves, the name put in
LiteralPattern(t) == [kind |-> "literal", first |-> {}, text |-> t]

\* the pattern setup: a template that is given and not empty is used when
\* it holds the placeholder; when it does not the error is logged and the
\* schema may begin with a digit; with no template it may not
sproc_pattern_str(sproc_name_input_, custom) ==
    IF custom.some /\ custom.text # <<>>
    THEN IF ~Contains(custom.text, Placeholder)
         THEN SchemaPattern(Letters \cup Digits \cup {"_"},
                            SplitLast(sproc_name_input_, <<>>))
         ELSE LiteralPattern(Replace(custom.text, Placeholder,
                                     SplitLast(sproc_name_input_, <<>>)))
    ELSE SchemaPattern(Letters \cup {"_"}, SplitLast(sproc_name_input_, <<>>))

\* the error the pattern setup logs
PatternErrors(custom) ==
    IF custom.some /\ custom.text # <<>> /\ ~Contains(custom.text, Placeholder)
    THEN {"missing_placeholder"} ELSE {}

IsQuote(t, i) == i >= 1 /\ i <= Len(t) /\ t[i] \in {"\"", "'"}

RECURSIVE WordRunEnd(_, _)
\* greedy [a-zA-Z0-9_]* from index i: the index after the run
WordRunEnd(t, i) == IF WordAt(t, i) THEN WordRunEnd(t, i + 1) ELSE i

\* NAME["'] matches in t at i, letters compared without their case
NameAndQuoteAt(t, i, name) ==
    StartsWith(Lower(t), i, Lower(name)) /\ IsQuote(t, i + Len(name))

\* sproc_pattern matches in t at i, under re.IGNORECASE
SprocMatchAt(t, i, pattern) ==
    IF pattern.kind = "literal"
    THEN StartsWith(Lower(t), i, Lower(pattern.text))
    ELSE /\ IsQuote(t, i)
         /\ \/ /\ i + 1 <= Len(t) /\ t[i + 1] \in pattern.first
               /\ WordRunEnd(t, i + 1) <= Len(t)
               /\ t[WordRunEnd(t, i + 1)] = "."
               /\ NameAndQuoteAt(t, WordRunEnd(t, i + 1) + 1, pattern.text)
            \/ NameAndQuoteAt(t, i + 1, pattern.text)

\* a mutation of FirstSprocMatch: the offset of the last match
FirstSprocMatch_Last(t, i, pattern) ==
    IF \E j \in i..Len(t) : SprocMatchAt(t, j, pattern)
    THEN CHOOSE j \in i..Len(t) :
            /\ SprocMatchAt(t, j, pattern)
            /\ \A n \in (j + 1)..Len(t) : ~SprocMatchAt(t, n, pattern)
    ELSE 0

RECURSIVE FirstSprocMatch(_, _, _)
\* matches[0].start() + 1, 0 when finditer gives no match
FirstSprocMatch(t, i, pattern) ==
    IF i > Len(t) THEN 0
    ELSE IF SprocMatchAt(t, i, pattern) THEN i
    ELSE FirstSprocMatch(t, i + 1, pattern)

RECURSIVE find_project_file_on_disk(_, _)
\* the upward search from the directory current; a directory of bad
\* raises when it is listed, and the search gives None
find_project_file_on_disk(current, bad) ==
    IF current \in bad THEN NoPath
    ELSE IF current \in DOMAIN disk /\ GlobCsproj(disk, current) # <<>>
    THEN SomePath(Resolve(Append(current, GlobCsproj(disk, current)[1].name)))
    ELSE IF current = Parent(current) THEN NoPath
    ELSE find_project_file_on_disk(Parent(current), bad)

\* a mutation of SprocRefsOfFile: a first match without enclosing type keeps
\* the file, under the empty name
SprocRefsOfFile_KeepUnbound(cs_file_abs, pattern, bad) ==
    LET Bind(text_, first, project) ==
            IF first = 0 \/ ~project.some THEN {}
            ELSE {<<project.path, find_enclosing_type_name(text_, first - 1).name,
                    cs_file_abs>>}
        Scan(text_) ==
            Bind(text_, FirstSprocMatch(text_, 1, pattern),
                 find_project_file_on_disk(Parent(cs_file_abs), bad))
    IN  IF ReadFails(cs_file_abs, bad) THEN {}
        ELSE Scan(sources[Resolve(cs_file_abs)])

\* what one file adds to projects_classes_sproc_refs: nothing when it
\* cannot be read, holds no match, maps to no project or the first match
\* has no enclosing type, else <<project, class, file>>
SprocRefsOfFile(cs_file_abs, pattern, bad) ==
    LET Bind(text_, first, project) ==
            IF first = 0 \/ ~project.some
               \/ ~find_enclosing_type_name(text_, first - 1).some
            THEN {}
            ELSE {<<project.path, find_enclosing_type_name(text_, first - 1).name,
                    cs_file_abs>>}
        Scan(text_) ==
            Bind(text_, FirstSprocMatch(text_, 1, pattern),
                 find_project_file_on_disk(Parent(cs_file_abs), bad))
    IN  IF ReadFails(cs_file_abs, bad) THEN {}
        ELSE Scan(sources[Resolve(cs_file_abs)])

\* projects_classes_sproc_refs[project]: the defaultdict makes the entry
\* when it is not there
TouchProject(refs, project) ==
    IF project \in DOMAIN refs THEN refs
    ELSE [p \in DOMAIN refs \cup {project} |-> IF p = project THEN <<>> ELSE refs[p]]

\* classes[enclosing_class].add(cs_file_abs) on the dict of one project
AddToClass(classes, enclosing_class, cs_file_abs) ==
    [c \in DOMAIN classes \cup {enclosing_class} |->
        IF c # enclosing_class THEN classes[c]
        ELSE IF c \in DOMAIN classes THEN classes[c] \cup {cs_file_abs}
        ELSE {cs_file_abs}]

\* projects_classes_sproc_refs[project_file_abs][enclosing_class].add(cs_file_abs)
AddRef(refs, project, enclosing_class, cs_file_abs) ==
    LET Store(touched) ==
            [touched EXCEPT ![project] =
                AddToClass(touched[project], enclosing_class, cs_file_abs)]
    IN  Store(TouchProject(refs, project))

\* one iteration of the file scanning loop on the dict refs: what the file
\* was found to add is added
ScanSprocFile(refs, found) ==
    IF found = {} THEN refs
    ELSE CHOOSE added \in {AddRef(refs, ref[1], ref[2], ref[3]) : ref \in found} : TRUE

RECURSIVE ScanSprocFiles(_, _, _)
\* the file scanning loop from file i on: the dict one file leaves is the
\* dict the next file is scanned with
ScanSprocFiles(refs, found_by_file, i) ==
    IF i > Len(found_by_file) THEN refs
    ELSE CHOOSE result \in
             {ScanSprocFiles(scanned, found_by_file, i + 1) :
                 scanned \in {ScanSprocFile(refs, found_by_file[i])}} :
             TRUE

\* what each file of the scope, in the order of the listing, adds
FoundByFile(cs_files_to_scan, pattern, bad) ==
    [i \in DOMAIN cs_files_to_scan |-> SprocRefsOfFile(cs_files_to_scan[i], pattern, bad)]

\* the dict the function returns; {} when the scope cannot be listed
SprocReferencesDict(sproc_name_input_, search_path_, custom, bad) ==
    IF search_path_ \in bad THEN <<>>
    ELSE CHOOSE result \in
             {ScanSprocFiles(<<>>, found_by_file, 1) :
                 found_by_file \in
                     {FoundByFile(RGlob(search_path_, CsSuffix),
                                  sproc_pattern_str(sproc_name_input_, custom), bad)}} :
             TRUE

\* the dict as the set of <<project, class, file>> with file in
\* result[project][class]
TriplesOf(refs) ==
    UNION {UNION {{<<project, class, file>> : file \in refs[project][class]} :
                      class \in DOMAIN refs[project]} :
               project \in DOMAIN refs}

\* the whole function, its result as the set of triples
find_cs_files_referencing_sproc(sproc_name_input_, search_path_, custom, bad) ==
    TriplesOf(SprocReferencesDict(sproc_name_input_, search_path_, custom, bad))

(***************************************************************************)
(* The sproc run: a scope, a name and a template are drawn, the function   *)
(* is applied                                                              *)
(***************************************************************************)
SprocNames ==
    {<<"u", "s", "p", "_", "X">>,
     <<"d", "b", "o", ".", "u", "s", "p", "_", "X">>}

SprocTemplates ==
    {NoPattern,
     SomePattern(<<>>),
     SomePattern(<<"E", "X", "E", "C", " ", "u", "s", "p">>),
     SomePattern(<<"u", "s", "p", "_", "X">>),
     SomePattern(<<"E", "X", "E", "C", " ", "{", "s", "p", "r", "o", "c",
                   "_", "n", "a", "m", "e", "_", "p", "l", "a", "c", "e",
                   "h", "o", "l", "d", "e", "r", "}">>)}

SprocTexts ==
    {<<"c", "l", "a", "s", "s", " ", "D", " ", "{", "\n", " ", "R", "(",
       "\"", "u", "s", "p", "_", "X", "\"", ")", ";", "\n", "}">>,
     <<"c", "l", "a", "s", "s", " ", "D", " ", "{", "\n", " ", "R", "(",
       "\"", "1", "d", "b", ".", "u", "s", "p", "_", "X", "\"", ")", ";",
       "\n", "}">>,
     <<"c", "l", "a", "s", "s", " ", "E", " ", "{", "\n", " ", "R", "(", "'",
       "d", "b", "o", ".", "U", "S", "P", "_", "x", "'", ")", ";", "\n", "}">>,
     <<"c", "l", "a", "s", "s", " ", "D", " ", "{", "\n", " ", "R", "(",
       "\"", "u", "s", "p", "_", "X", "Y", "\"", ")", ";", "\n", "}">>,
     <<"R", "(", "\"", "u", "s", "p", "_", "X", "\"", ")", ";">>,
     <<"c", "l", "a", "s", "s", " ", "D", " ", "{", "\n", " ", "E", "X", "E",
       "C", " ", "u", "s", "p", "_", "X", "\n", "}">>,
     <<"c", "l", "a", "s", "s", " ", "D", " ", "{", "\n", " ", "R", "(",
       "\"", "u", "s", "p", "_", "X", "\"", ")", ";", "\n", "}", "\n",
       "c", "l", "a", "s", "s", " ", "E", " ", "{", "\n", " ", "R", "(",
       "\"", "u", "s", "p", "_", "X", "\"", ")", ";", "\n", "}">>}

d_cs == <<"d", ".", "c", "s">>

e_cs == <<"e", ".", "c", "s">>

\* the scope /s: the project A with d.cs, the directory B with e.cs and,
\* when owned, a manifest of its own
SprocDiskOf(owned) ==
    [d \in {<<>>, <<Nm.s>>, <<Nm.s, Nm.A>>, <<Nm.s, Nm.B>>} |->
        IF d = <<>> THEN <<Entry(Nm.s, "dir", <<>>)>>
        ELSE IF d = <<Nm.s>>
        THEN <<Entry(Nm.A, "dir", <<>>), Entry(Nm.B, "dir", <<>>)>>
        ELSE IF d = <<Nm.s, Nm.A>>
        THEN <<Entry(Nm.A_csproj, "file", <<>>), Entry(d_cs, "file", <<>>)>>
        ELSE <<Entry(e_cs, "file", <<>>)>>
             \o (IF owned THEN <<Entry(Nm.B_csproj, "file", <<>>)>> ELSE <<>>)]

SprocSourcesOf(td, te) ==
    [f \in {<<Nm.s, Nm.A, d_cs>>, <<Nm.s, Nm.B, e_cs>>} |->
        IF f = <<Nm.s, Nm.A, d_cs>> THEN td ELSE te]

\* what may fail in one call: the listing of the scope, the listing of a
\* directory by the locator, the reading of a file
SprocFaultItems ==
    {<<Nm.s>>, <<Nm.s, Nm.A>>, <<Nm.s, Nm.B>>,
     <<Nm.s, Nm.A, d_cs>>, <<Nm.s, Nm.B, e_cs>>}

SprocInit ==
    /\ \E owned \in BOOLEAN : disk = SprocDiskOf(owned)
    /\ manifests = NoFiles
    /\ \E td \in SprocTexts : \E te \in SprocTexts : sources = SprocSourcesOf(td, te)
    /\ sproc_name_input \in SprocNames
    /\ custom_sproc_regex_pattern \in SprocTemplates
    /\ search_path = <<Nm.s>>
    /\ sproc_refs = {}
    /\ projects_classes_sproc_refs = <<>>
    /\ sproc_log = {}
    /\ sproc_faults = {}
    /\ spc = "call"

\* one call of find_cs_files_referencing_sproc
FindSprocReferences ==
    /\ spc = "call"
    /\ \E bad \in FaultChoices(SprocFaultItems) :
          /\ projects_classes_sproc_refs' = SprocReferencesDict(
                               sproc_name_input, search_path,
                               custom_sproc_regex_pattern, bad)
          /\ sproc_refs' = TriplesOf(projects_classes_sproc_refs')
          /\ sproc_faults' = bad
    /\ sproc_log' = PatternErrors(custom_sproc_regex_pattern)
    /\ spc' = "done"
    /\ UNCHANGED <<sproc_name_input, custom_sproc_regex_pattern, search_path>>
    /\ UNCHANGED notSproc

SprocIdle ==
    /\ sproc_name_input = <<>>
    /\ custom_sproc_regex_pattern = NoPattern
    /\ search_path = <<>>
    /\ sproc_refs = {}
    /\ projects_classes_sproc_refs = <<>>
    /\ sproc_log = {}
    /\ sproc_faults = {}
    /\ spc = "idle"

SprocNext == FindSprocReferences

(***************************************************************************)
(* The report: _process_consumer_summaries_and_append_results and the sort *)
(* of __main__                                                             *)
(***************************************************************************)
\* the characters of the report keys in the order of their code points
CodePointOrder ==
    <<" ", "(", ")", ".", "/">> \o DigitSeq \o <<":">> \o UpperSeq \o <<"_">> \o LowerSeq

ord(c) == CHOOSE i \in DOMAIN CodePointOrder : CodePointOrder[i] = c

RECURSIVE StrLess(_, _)
\* a < b on str: the first differing character decides, a proper prefix is
\* the smaller
StrLess(a, b) ==
    IF b = <<>> THEN FALSE
    ELSE IF a = <<>> THEN TRUE
    ELSE IF Head(a) = Head(b) THEN StrLess(Tail(a), Tail(b))
    ELSE ord(Head(a)) < ord(Head(b))

RECURSIVE TupleLess(_, _)
\* a < b on tuples of str
TupleLess(a, b) ==
    IF b = <<>> THEN FALSE
    ELSE IF a = <<>> THEN TRUE
    ELSE IF Head(a) = Head(b) THEN TupleLess(Tail(a), Tail(b))
    ELSE StrLess(Head(a), Head(b))

\* a mutation of SortKey: the triggering symbol is left out of the key
SortKey_NoTrigger(x) == <<x.TargetProjectName, x.ConsumerProjectName>>

\* key=lambda x: (x['TargetProjectName'], x['TriggeringType'], x['ConsumerProjectName'])
SortKey(x) == <<x.TargetProjectName, x.TriggeringType, x.ConsumerProjectName>>

RECURSIVE InsertByKey(_, _)
\* x goes behind every element whose key is not greater than its own
InsertByKey(sorted, x) ==
    IF sorted = <<>> THEN <<x>>
    ELSE IF TupleLess(SortKey(x), SortKey(Head(sorted))) THEN <<x>> \o sorted
    ELSE <<Head(sorted)>> \o InsertByKey(Tail(sorted), x)

RECURSIVE ListSort(_, _)
\* list.sort(key=...): stable, elements of equal keys keep their order
ListSort(l, sorted) ==
    IF l = <<>> THEN sorted ELSE ListSort(Tail(l), InsertByKey(sorted, Head(l)))

\* consumer_abs_path.relative_to(search_scope_path_abs).as_posix(), the
\* absolute path when the consumer is not below the scope
RelativeTo(p, scope) ==
    IF IsPrefix(scope, p) THEN SubSeq(p, Len(scope) + 1, Len(p)) ELSE p

ConsumerInfo(p, n) == [consumer_path |-> p, consumer_name |-> n]

\* the record appended for one consumer; without summarization the
\* summaries are empty
ResultRecord(target, triggering_info, consumer_info, scope, pipeline_map) ==
    [TargetProjectName |-> target.name,
     TargetProjectPath |-> target.path,
     TriggeringType |-> triggering_info,
     ConsumerProjectName |-> consumer_info.consumer_name,
     ConsumerProjectPath |-> RelativeTo(consumer_info.consumer_path, scope),
     PipelineName |-> IF consumer_info.consumer_name \in DOMAIN pipeline_map
                      THEN pipeline_map[consumer_info.consumer_name] ELSE <<>>,
     ConsumerFileSummaries |-> {}]

\* the targets, the triggers and the consumers of the report run
ReportTargets ==
    {[name |-> <<"A">>, path |-> <<Nm.A, Nm.A_csproj>>],
     [name |-> <<"a", "1">>, path |-> <<Nm.lib, Nm.real_csproj>>]}

ReportTriggers ==
    {<<"N", "/", "A", " ", "(", "P", "r", "o", "j", "e", "c", "t", " ", "R",
       "e", "f", "e", "r", "e", "n", "c", "e", ")">>,
     <<"W">>,
     <<"W", ".", "R">>}

ReportConsumers ==
    {ConsumerInfo(<<Nm.s, Nm.B, Nm.B_csproj>>, <<"B">>),
     ConsumerInfo(<<Nm.s, Nm.C, Nm.C_csproj>>, <<"B", "a">>),
     ConsumerInfo(<<Nm.lib, Nm.copy_csproj>>, <<"b">>)}

ReportPipelineMap == [n \in {<<"B">>} |-> <<"c", "i">>]

MaxResults == 3

\* the lists find_consumers may return: consumers that differ, in any order
ConsumerLists ==
    {l \in UNION {[1..n -> ReportConsumers] : n \in 1..2} :
        \A i \in DOMAIN l : \A j \in DOMAIN l : l[i] = l[j] => i = j}

ReportInit ==
    /\ all_results = <<>>
    /\ discovered = <<>>
    /\ rpc = "collect"

\* one call of _process_consumer_summaries_and_append_results: a record
\* per consumer, in the order of final_consumers_data
AppendResults ==
    /\ rpc = "collect"
    /\ \E target \in ReportTargets : \E triggering_info \in ReportTriggers :
       \E consumers \in ConsumerLists :
          /\ Len(all_results) + Len(consumers) <= MaxResults
          /\ all_results' = all_results \o
                [i \in DOMAIN consumers |->
                    ResultRecord(target, triggering_info, consumers[i],
                                 <<Nm.s>>, ReportPipelineMap)]
    /\ UNCHANGED <<discovered, rpc>>
    /\ UNCHANGED notReport

\* the output step of __main__: results that are not empty are sorted,
\* then written in the order of the list
SortResults ==
    /\ rpc = "collect"
    /\ discovered' = all_results
    /\ all_results' = IF all_results = <<>> THEN <<>> ELSE ListSort(all_results, <<>>)
    /\ rpc' = "reported"
    /\ UNCHANGED notReport

ReportIdle ==
    /\ all_results = <<>>
    /\ discovered = <<>>
    /\ rpc = "idle"

ReportNext == AppendResults \/ SortResults

(***************************************************************************)
(* derive_namespace                                                        *)
(***************************************************************************)
\* an element of a manifest: its tag, whether the tag carries the msbuild
\* namespace, and its text (<<>> for an element without text)
Elem(tag, msb, text_) == [tag |-> tag, msb |-> msb, text |-> text_]

\* what derive_namespace meets at csproj_path: the name of the file,
\* whether it is a file, whether ElementTree parses it, and the elements of
\* the tree in document order
Csproj(name, is_file, ok, elems) ==
    [name |-> name, is_file |-> is_file, ok |-> ok, elems |-> elems]

RECURSIVE FirstElem(_, _, _)
\* root.find: the first element in document order with the tag, in the
\* convention asked for; <<>> stands for None
FirstElem(elems, tag, msb) ==
    IF elems = <<>> THEN <<>>
    ELSE IF Head(elems).tag = tag /\ Head(elems).msb = msb THEN <<Head(elems)>>
    ELSE FirstElem(Tail(elems), tag, msb)

\* the element of a tag: the one with the msbuild namespace, the plain one
\* when there is none
FindTag(elems, tag) ==
    IF FirstElem(elems, tag, TRUE) # <<>> THEN FirstElem(elems, tag, TRUE)
    ELSE FirstElem(elems, tag, FALSE)

TagsToCheck == <<"RootNamespace", "AssemblyName">>

RECURSIVE NamespaceOfTags(_, _, _)
\* the loop over tags_to_check: the stripped text of the first tag whose
\* element has one, the filename stem when no tag has
NamespaceOfTags(csproj_, tags, i) ==
    IF i > Len(tags) THEN SomeName(Stem(csproj_.name))
    ELSE IF FindTag(csproj_.elems, tags[i]) # <<>>
            /\ Strip(FindTag(csproj_.elems, tags[i])[1].text) # <<>>
    THEN SomeName(Strip(FindTag(csproj_.elems, tags[i])[1].text))
    ELSE NamespaceOfTags(csproj_, tags, i + 1)

\* None when csproj_path is no file or is not parsed
derive_namespace(csproj_) ==
    IF ~csproj_.is_file \/ ~csproj_.ok THEN NoName
    ELSE NamespaceOfTags(csproj_, TagsToCheck, 1)

(***************************************************************************)
(* The namespace run: a manifest is drawn, derive_namespace is applied     *)
(***************************************************************************)
ElemTexts ==
    {<<>>, <<" ">>, <<"A", "c", "m", "e">>, <<" ", "L", "i", "b", "\n">>}

ManifestElems ==
    {Elem(tag, msb, text_) :
        tag \in {"RootNamespace", "AssemblyName"}, msb \in BOOLEAN, text_ \in ElemTexts}

MaxElems == 3

ManifestInputs ==
    {Csproj(Nm.A_csproj, is_file, ok, elems) :
        is_file \in BOOLEAN, ok \in BOOLEAN,
        elems \in UNION {[1..n -> ManifestElems] : n \in 0..MaxElems}}

NamespaceInit ==
    /\ csproj \in ManifestInputs
    /\ derived = NoName
    /\ dpc = "call"

\* one call of derive_namespace
DeriveNamespace ==
    /\ dpc = "call"
    /\ derived' = derive_namespace(csproj)
    /\ dpc' = "done"
    /\ UNCHANGED csproj
    /\ UNCHANGED notNamespace

NamespaceIdle ==
    /\ csproj = Csproj(<<>>, FALSE, FALSE, <<>>)
    /\ derived = NoName
    /\ dpc = "idle"

NamespaceNext == DeriveNamespace

(***************************************************************************)
(* __main__: validation, the three modes, the exit                         *)
(***************************************************************************)
\* the command line and what the program meets when it runs on it
\*   search_scope   "absent", "missing" (no such path) or "dir"
\*   repo_path      "missing", "dir" (no repository) or "repo"
\*   base_in_heads, branch_in_heads   the branches are heads of the repository
\*   diffable       there is a merge base or a parent to compare with
\*   changed_cs     the diff holds a source file that was not deleted
\*   mapped         the snapshot locator maps it to a manifest
\*   types          the changed files declare a type
\*   target_project "file" (a manifest), "dir" (holding one), "empty_dir"
\*                  (holding none) or "other"
\*   target_namespace   --target-namespace is given
\*   manifest       the target manifest as derive_namespace meets it
\*   sproc_regex_pattern   --sproc-regex-pattern
\*   found          the sproc search: "refs", or the reason its map is empty
GitArgs ==
    [mode : {"git"}, search_scope : {"absent", "missing", "dir"},
     repo_path : {"missing", "dir", "repo"},
     base_in_heads : BOOLEAN, branch_in_heads : BOOLEAN, diffable : BOOLEAN,
     changed_cs : BOOLEAN, mapped : BOOLEAN, types : BOOLEAN,
     target_project : {"file"}, target_namespace : {FALSE},
     manifest : {Csproj(Nm.A_csproj, TRUE, TRUE, <<>>),
                 Csproj(Nm.A_csproj, TRUE, FALSE, <<>>)},
     sproc_regex_pattern : {NoPattern}, found : {"refs"}]

TargetArgs ==
    [mode : {"target"}, search_scope : {"absent", "missing", "dir"},
     repo_path : {"repo"},
     base_in_heads : {TRUE}, branch_in_heads : {TRUE}, diffable : {TRUE},
     changed_cs : {TRUE}, mapped : {TRUE}, types : {TRUE},
     target_project : {"file", "dir", "empty_dir", "other"},
     target_namespace : BOOLEAN,
     manifest : {Csproj(Nm.A_csproj, TRUE, TRUE, <<>>),
                 Csproj(Nm.A_csproj, TRUE, FALSE, <<>>)},
     sproc_regex_pattern : {NoPattern}, found : {"refs"}]

SprocArgs ==
    [mode : {"sproc"}, search_scope : {"absent", "missing", "dir"},
     repo_path : {"repo"},
     base_in_heads : {TRUE}, branch_in_heads : {TRUE}, diffable : {TRUE},
     changed_cs : {TRUE}, mapped : {TRUE}, types : {TRUE},
     target_project : {"file"}, target_namespace : BOOLEAN,
     manifest : {Csproj(Nm.A_csproj, TRUE, TRUE, <<>>),
                 Csproj(Nm.A_csproj, TRUE, FALSE, <<>>)},
     sproc_regex_pattern : SprocTemplates,
     found : {"refs", "no_match", "no_manifest", "no_enclosing"}]

\* --target-namespace when given
GivenNamespace == SomeName(<<"A", "c", "m", "e">>)

\* f"NAMESPACE_ERROR_{target_project_name}"
NamespaceSentinel(a) == SomeName(NamespaceErrorPrefix \o Stem(a.manifest.name))

\* the try block of the validation: "ok", or the status the process exits with
Validation(a) ==
    LET Modes(scope_ok) ==
            IF ~scope_ok THEN "1"
            ELSE IF a.mode = "git" /\ a.repo_path = "missing" THEN "1"
            ELSE IF a.mode = "target" /\ a.target_project \in {"empty_dir", "other"}
            THEN "1"
            ELSE "ok"
    IN  IF a.search_scope # "absent" THEN Modes(a.search_scope = "dir")
        ELSE IF a.mode = "git" THEN Modes(a.repo_path # "missing")
        ELSE "2"

MainInit ==
    /\ args \in GitArgs \cup TargetArgs \cup SprocArgs
    /\ mpc = "validate"
    /\ exit_status = "running"
    /\ scans = {}
    /\ not_found = {}
    /\ main_log = {}
    /\ namespace_str = NoName

\* the validation of the arguments: parser.error leaves with status 2, an
\* exception of the try block with status 1
MainValidate ==
    /\ mpc = "validate"
    /\ IF Validation(args) = "ok"
       THEN /\ mpc' = "run"
            /\ UNCHANGED <<exit_status, main_log>>
       ELSE /\ mpc' = "exit"
            /\ exit_status' = Validation(args)
            /\ main_log' = main_log \cup
                  {IF Validation(args) = "2" THEN "search_scope_required"
                   ELSE "input_validation_failed"}
    /\ UNCHANGED <<args, scans, not_found, namespace_str>>
    /\ UNCHANGED notMain

\* git mode, step 1: analyze_branch_changes.  A path that is no repository,
\* a branch that is no head and a branch with nothing to compare with end
\* the process with status 1; else the changed source files are mapped to
\* their manifests in the snapshot
MainAnalyzeBranch ==
    /\ mpc = "run" /\ args.mode = "git"
    /\ IF args.repo_path # "repo"
       THEN /\ mpc' = "exit" /\ exit_status' = "1"
            /\ main_log' = main_log \cup {"git_repository_error"}
            /\ UNCHANGED <<scans, not_found>>
       ELSE IF ~args.base_in_heads \/ ~args.branch_in_heads \/ ~args.diffable
       THEN /\ mpc' = "exit" /\ exit_status' = "1"
            /\ main_log' = main_log \cup {"git_analysis_error"}
            /\ UNCHANGED <<scans, not_found>>
       ELSE /\ scans' = scans \cup (IF args.changed_cs THEN {"snapshot"} ELSE {})
            /\ not_found' = not_found \cup
                  (IF args.changed_cs /\ ~args.mapped THEN {"no_manifest"} ELSE {})
            /\ mpc' = IF args.changed_cs /\ args.mapped THEN "git_types" ELSE "report"
            /\ UNCHANGED <<exit_status, main_log>>
    /\ UNCHANGED <<args, namespace_str>>
    /\ UNCHANGED notMain

\* git mode, steps 2 and 3: the types of the changed files are extracted;
\* for a target that is a file the namespace is derived, the sentinel
\* standing in when it cannot be, and find_consumers is called
MainGitConsumers ==
    /\ mpc = "git_types"
    /\ IF ~args.types \/ ~args.manifest.is_file
       THEN /\ scans' = scans \cup {"source"}
            /\ UNCHANGED <<not_found, namespace_str>>
       ELSE /\ scans' = scans \cup {"source", "manifest"}
            /\ namespace_str' = IF derive_namespace(args.manifest).some
                                THEN derive_namespace(args.manifest)
                                ELSE NamespaceSentinel(args)
            /\ not_found' = not_found \cup
                  (IF derive_namespace(args.manifest).some THEN {}
                   ELSE {"no_namespace"})
    /\ mpc' = "report"
    /\ UNCHANGED <<args, exit_status, main_log>>
    /\ UNCHANGED notMain

\* target mode: the namespace is the one given or the one derived; when
\* none is derived the process ends with status 1, else find_consumers is
\* called
MainTarget ==
    /\ mpc = "run" /\ args.mode = "target"
    /\ IF args.target_namespace
       THEN /\ namespace_str' = GivenNamespace
            /\ scans' = scans \cup {"manifest"}
            /\ mpc' = "report"
            /\ UNCHANGED <<exit_status, main_log, not_found>>
       ELSE IF derive_namespace(args.manifest).some
       THEN /\ namespace_str' = derive_namespace(args.manifest)
            /\ scans' = scans \cup {"manifest"}
            /\ mpc' = "report"
            /\ UNCHANGED <<exit_status, main_log, not_found>>
       ELSE /\ not_found' = not_found \cup {"no_namespace"}
            /\ main_log' = main_log \cup {"could_not_derive_namespace"}
            /\ mpc' = "exit" /\ exit_status' = "1"
            /\ UNCHANGED <<namespace_str, scans>>
    /\ UNCHANGED args
    /\ UNCHANGED notMain

\* sproc mode, step A: find_cs_files_referencing_sproc logs a template
\* without placeholder and scans the scope; an empty map ends the process
\* with status 0
MainSprocSearch ==
    /\ mpc = "run" /\ args.mode = "sproc"
    /\ main_log' = main_log \cup PatternErrors(args.sproc_regex_pattern)
    /\ scans' = scans \cup {"sproc"}
    /\ not_found' = not_found \cup
          (IF args.found \in {"no_manifest", "no_enclosing"} THEN {args.found} ELSE {})
    /\ IF args.found = "refs"
       THEN mpc' = "sproc_targets" /\ UNCHANGED exit_status
       ELSE mpc' = "exit" /\ exit_status' = "0"
    /\ UNCHANGED <<args, namespace_str>>
    /\ UNCHANGED notMain

\* sproc mode, step B: the namespace is the one given or derived, the
\* sentinel standing in when there is none, and find_consumers is called
\* for the classes found
MainSprocConsumers ==
    /\ mpc = "sproc_targets"
    /\ namespace_str' = IF args.target_namespace THEN GivenNamespace
                        ELSE IF derive_namespace(args.manifest).some
                        THEN derive_namespace(args.manifest)
                        ELSE NamespaceSentinel(args)
    /\ not_found' = not_found \cup
          (IF args.target_namespace \/ derive_namespace(args.manifest).some
           THEN {} ELSE {"no_namespace"})
    /\ scans' = scans \cup {"manifest"}
    /\ mpc' = "report"
    /\ UNCHANGED <<args, exit_status, main_log>>
    /\ UNCHANGED notMain

\* the report is written and the process ends with status 0
MainReport ==
    /\ mpc = "report"
    /\ mpc' = "exit"
    /\ exit_status' = "0"
    /\ UNCHANGED <<args, scans, not_found, main_log, namespace_str>>
    /\ UNCHANGED notMain

MainIdle ==
    /\ args = <<>>
    /\ mpc = "idle"
    /\ exit_status = "idle"
    /\ scans = {}
    /\ not_found = {}
    /\ main_log = {}
    /\ namespace_str = NoName

MainNext ==
    \/ MainValidate
    \/ MainAnalyzeBranch
    \/ MainGitConsumers
    \/ MainTarget
    \/ MainSprocSearch
    \/ MainSprocConsumers
    \/ MainReport

(***************************************************************************)
(* Specifications: one per part of the program, the other parts idle       *)
(***************************************************************************)
EnvIdle == disk = EmptyDisk /\ manifests = NoFiles /\ sources = NoFiles

InitText ==
    /\ TextInit
    /\ EnvIdle
    /\ LocIdle
    /\ FunnelIdle
    /\ SprocIdle
    /\ ReportIdle
    /\ NamespaceIdle
    /\ MainIdle

SpecText == InitText /\ [][TextNext]_vars

InitLocator ==
    /\ LocInit
    /\ TextIdle
    /\ FunnelIdle
    /\ SprocIdle
    /\ ReportIdle
    /\ NamespaceIdle
    /\ MainIdle

SpecLocator == InitLocator /\ [][LocNext]_vars

InitFunnel ==
    /\ FunnelInit
    /\ TextIdle
    /\ LocIdle
    /\ SprocIdle
    /\ ReportIdle
    /\ NamespaceIdle
    /\ MainIdle

SpecFunnel == InitFunnel /\ [][FunnelNext]_vars

InitSproc ==
    /\ SprocInit
    /\ TextIdle
    /\ LocIdle
    /\ FunnelIdle
    /\ ReportIdle
    /\ NamespaceIdle
    /\ MainIdle

SpecSproc == InitSproc /\ [][SprocNext]_vars

InitReport ==
    /\ ReportInit
    /\ EnvIdle
    /\ TextIdle
    /\ LocIdle
    /\ FunnelIdle
    /\ SprocIdle
    /\ NamespaceIdle
    /\ MainIdle

SpecReport == InitReport /\ [][ReportNext]_vars

InitNamespace ==
    /\ NamespaceInit
    /\ EnvIdle
    /\ TextIdle
    /\ LocIdle
    /\ FunnelIdle
    /\ SprocIdle
    /\ ReportIdle
    /\ MainIdle

SpecNamespace == InitNamespace /\ [][NamespaceNext]_vars

InitMain ==
    /\ MainInit
    /\ EnvIdle
    /\ TextIdle
    /\ LocIdle
    /\ FunnelIdle
    /\ SprocIdle
    /\ ReportIdle
    /\ NamespaceIdle

SpecMain == InitMain /\ [][MainNext]_vars

(***************************************************************************)
(* Claims on the locators                                                  *)
(***************************************************************************)
\* the directory d of the snapshot, respectively of the file system, holds
\* a manifest
SnapshotManifestIn(d) ==
    d \in DOMAIN commit_tree /\ FirstManifestBlob(commit_tree[d]) # 0

DiskManifestIn(d) == d \in DOMAIN disk /\ GlobCsproj(disk, d) # <<>>

ManifestIn(d) == IF loc_mode = "snapshot" THEN SnapshotManifestIn(d) ELSE DiskManifestIn(d)

\* the source file handed to the locator is a file of the snapshot,
\* respectively of the file system
SourceFileExists ==
    IF loc_mode = "snapshot" THEN Parent(cs_file) \in DOMAIN commit_tree
    ELSE Parent(cs_file) \in DOMAIN disk

\* M is the nearest manifest upward from the directory D of the source file
NearestManifest(M, D) ==
    /\ IsPrefix(Parent(M), D)
    /\ \A n \in (Len(M))..Len(D) : ~ManifestIn(SubSeq(D, 1, n))

\* C1: every manifest M a locator returns for a source file of directory D
\* lies in D or in an ancestor of D, and no directory from D up to (not
\* including) the directory of M holds a manifest.
C1_NearestManifest ==
    (lpc = "found" /\ SourceFileExists /\ loc_faults = {})
    => NearestManifest(project_file.path, Parent(cs_file))

(***************************************************************************)
(* Claims on the funnel                                                    *)
(***************************************************************************)
StageOrder == <<"reference", "namespace", "type", "method">>

\* from stage number first on, what a stage recorded for a consumer lies in
\* what the stage before it recorded for the same consumer
NarrowsFrom(first) ==
    \A r1 \in recorded : \A r2 \in recorded :
        \A n \in first..(Len(StageOrder) - 1) :
            (r1[1] = StageOrder[n] /\ r2[1] = StageOrder[n + 1] /\ r1[2] = r2[2])
                => Range(r2[3]) \subseteq Range(r1[3])

\* C2, as stated: for every consumer and every two consecutive stages it
\* reaches, Project-Reference included, the files recorded at the later
\* stage are a subset of the files recorded at the earlier one.
C2_FilesNarrowAtEveryStage == NarrowsFrom(1)

\* C2, amended: the files recorded at the Type-Usage stage are a subset of
\* those recorded at the Namespace-Import stage, and the files recorded at
\* the Call-Site-Usage stage a subset of those recorded at the Type-Usage
\* stage; the Project-Reference stage records no file.
C2_FilesNarrowAfterNamespace ==
    /\ NarrowsFrom(2)
    /\ \A r \in recorded : r[1] = "reference" => r[3] = <<>>

\* a consumer went through the last three stages and lost a file on the way
C2_Witness ==
    /\ fpc = "done"
    /\ \E r1 \in recorded : \E r2 \in recorded : \E r3 \in recorded :
        /\ r1[1] = "namespace" /\ r2[1] = "type" /\ r3[1] = "method"
        /\ r1[2] = r2[2] /\ r2[2] = r3[2]
        /\ Range(r3[3]) # Range(r1[3])

\* one of the references of the manifest c, of either convention, leads to
\* the file the target is
RefersToTarget(c) ==
    /\ c \in DOMAIN manifests
    /\ manifests[c].ok
    /\ \E include_ \in Range(manifests[c].msb) \cup Range(manifests[c].plain) :
        /\ include_ # <<>>
        /\ Exists(JoinPath(Parent(c), ReplaceBackslash(include_)))
        /\ SameFile(JoinPath(Parent(c), ReplaceBackslash(include_)), target_csproj_path)

ReturnedConsumers ==
    {final_consumers_data[i].consumer_path : i \in DOMAIN final_consumers_data}

\* C3: a build unit that fails stage 1 is never returned: on every return
\* path every returned consumer is a stage-1 survivor, and its manifest
\* holds a reference that resolves to the target.
C3_NoResurrection ==
    fpc = "done" =>
        \A c \in ReturnedConsumers :
            c \in Range(direct_consumers) /\ RefersToTarget(c)

\* the fallback returned the stage-1 survivors while a manifest of the
\* scope that does not refer to the target stayed out
C3_Witness ==
    /\ fpc = "done"
    /\ namespace_consumers = <<>>
    /\ final_consumers_data # <<>>
    /\ \E p \in Range(potential_consumers) :
        ~RefersToTarget(p) /\ p \notin ReturnedConsumers

\* the stage-1 survivors as stage 1 recorded them
StageOneSet ==
    [i \in DOMAIN direct_consumers |->
        [consumer_path |-> direct_consumers[i],
         consumer_name |-> Stem(direct_consumers[i][Len(direct_consumers[i])]),
         relevant_files |-> <<>>]]

\* C4: when the Namespace-Import stage leaves no survivor, the result is
\* empty if a type filter was requested and is exactly the stage-1 survivor
\* set if none was.
C4_EmptyNamespaceStage ==
    (fpc = "done" /\ direct_consumers # <<>> /\ namespace_consumers = <<>>)
        => final_consumers_data = IF class_name # <<>> THEN <<>> ELSE StageOneSet

\* no type filter, no file imports the namespace, the stage-1 set came back
C4_Witness ==
    /\ fpc = "done"
    /\ ~NamespaceUnreliable
    /\ direct_consumers # <<>>
    /\ namespace_consumers = <<>>
    /\ class_name = <<>>
    /\ final_consumers_data = StageOneSet

RECURSIVE NearestManifestFrom(_)
\* find_project_file_on_disk from the directory dir, no listing failing
NearestManifestFrom(dir) ==
    IF dir \in DOMAIN disk /\ GlobCsproj(disk, dir) # <<>>
    THEN SomePath(Resolve(Append(dir, GlobCsproj(disk, dir)[1].name)))
    ELSE IF dir = Parent(dir) THEN NoPath
    ELSE NearestManifestFrom(Parent(dir))

\* the source files a build unit owns: those the locator maps to its manifest
OwnedFiles(c) ==
    {f \in DOMAIN sources : NearestManifestFrom(Parent(f)) = SomePath(c)}

ImportsNamespace(f) == using_pattern(sources[f], target_namespace)

CallsOnType(f) ==
    /\ ImportsNamespace(f)
    /\ class_pattern(sources[f], class_name)
    /\ method_pattern(sources[f], method_name)

ProjectB == <<Nm.s, Nm.B, Nm.B_csproj>>

ProjectC == <<Nm.s, Nm.C, Nm.C_csproj>>

\* the scope of the end-to-end scenario: B and C refer to the target, a
\* file of B imports the namespace and calls Render on a Widget, no file of
\* C imports the namespace, the filters are Widget and Render, no I/O fails
EndToEndScenario ==
    /\ fpc = "done"
    /\ funnel_faults = {}
    /\ target_namespace = Arg.Acme /\ class_name = Arg.Widget /\ method_name = Arg.Render
    /\ RefersToTarget(ProjectB) /\ RefersToTarget(ProjectC)
    /\ \E f \in OwnedFiles(ProjectB) : CallsOnType(f)
    /\ \A f \in OwnedFiles(ProjectC) : ~ImportsNamespace(f)

\* C5: in the end-to-end scenario find_consumers returns exactly {B}, and
\* the files attributed to B are the files of B that import the namespace
\* and hold the .Render( call on a Widget.
C5_EndToEnd ==
    EndToEndScenario =>
        /\ ReturnedConsumers = {ProjectB}
        /\ \A i \in DOMAIN final_consumers_data :
            Range(final_consumers_data[i].relevant_files)
                = {f \in OwnedFiles(ProjectB) : CallsOnType(f)}

\* C6: find_consumers never returns the target build unit as a consumer of
\* itself, however the target path is spelled and whatever its manifest
\* refers to.
C6_NoSelfConsumer ==
    fpc = "done" =>
        \A c \in ReturnedConsumers : ~SameFile(c, target_csproj_path)

(***************************************************************************)
(* Claims on the lexical functions                                         *)
(***************************************************************************)
SprocLiteral == <<"u", "s", "p", "_", "X">>

\* offset of usp_X in the sample text (0-based, as str.index gives it)
EnclosingSampleOffset ==
    (CHOOSE i \in DOMAIN EnclosingSampleText :
        StartsWith(EnclosingSampleText, i, SprocLiteral)) - 1

\* C7: find_enclosing_type_name on the sample text `class A {\n...\n} class B
\* { void M(){ "usp_X" } }` and the offset of usp_X returns "B".
C7_EnclosingSampleIsB ==
    (tpc = "enclosed" /\ content = EnclosingSampleText
        /\ match_start_index = EnclosingSampleOffset)
    => enclosing = SomeName(<<"B">>)

\* C8: extract_type_names_from_content yields {"Foo"} on `public class Foo<T>
\* : Base {`; no returned name holds a '<' or a ',' or begins or ends with
\* white space; two declarations of one name give one element.
C8_ExtractedBaseNames ==
    tpc = "extracted" =>
        /\ content = DeclarationSampleText => found_types = {<<"F", "o", "o">>}
        /\ content = DuplicateSampleText => found_types = {<<"A">>}
        /\ \A n \in found_types :
              /\ n # <<>>
              /\ \A i \in DOMAIN n : n[i] \notin {"<", ","}
              /\ ~IsSpace(n[1]) /\ ~IsSpace(n[Len(n)])

\* a declaration list `class A,{` was scanned and its first name returned
C8_Witness ==
    /\ tpc = "extracted"
    /\ \E i \in DOMAIN content : content[i] = ","
    /\ found_types = {<<"A">>}

(***************************************************************************)
(* Claims on the report                                                    *)
(***************************************************************************)
\* the key the report is said to be sorted by
ReportKey(r) == <<r.TargetProjectName, r.TriggeringType, r.ConsumerProjectName>>

\* how often the record r is in the list l
Occurrences(l, r) == Cardinality({i \in DOMAIN l : l[i] = r})

\* C9: the emitted sequence of result records is sorted by (target name,
\* triggering symbol, consumer name): of every two adjacent records the key
\* of the first is less than or equal to the key of the second, whatever
\* order the records were discovered in; the sort loses and adds no record.
C9_ReportSorted ==
    rpc = "reported" =>
        /\ \A i \in 1..(Len(all_results) - 1) :
              ~TupleLess(ReportKey(all_results[i + 1]), ReportKey(all_results[i]))
        /\ \A r \in Range(discovered) \cup Range(all_results) :
              Occurrences(all_results, r) = Occurrences(discovered, r)

\* a report of one target whose records were discovered out of order and
\* whose place is decided by the triggering symbol
C9_Witness ==
    /\ rpc = "reported"
    /\ discovered # all_results
    /\ \E i \in 1..(Len(all_results) - 1) :
          /\ all_results[i].TargetProjectName = all_results[i + 1].TargetProjectName
          /\ StrLess(all_results[i].TriggeringType, all_results[i + 1].TriggeringType)
          /\ StrLess(all_results[i + 1].ConsumerProjectName,
                     all_results[i].ConsumerProjectName)

(***************************************************************************)
(* Claims on the sproc binding resolver                                    *)
(***************************************************************************)
\* the call was made with a template that omits the placeholder
TemplateOmitsPlaceholder ==
    /\ custom_sproc_regex_pattern.some
    /\ custom_sproc_regex_pattern.text # <<>>
    /\ ~Contains(custom_sproc_regex_pattern.text, Placeholder)

\* C10: called with a custom template that omits the placeholder,
\* find_cs_files_referencing_sproc reports the error, returns, and its
\* result is the result of the same call made with no custom template.
C10_FallbackIsDefault ==
    (spc = "done" /\ TemplateOmitsPlaceholder) =>
        /\ "missing_placeholder" \in sproc_log
        /\ sproc_refs = find_cs_files_referencing_sproc(
                            sproc_name_input, search_path, NoPattern, sproc_faults)

(***************************************************************************)
(* Claims on derive_namespace                                              *)
(***************************************************************************)
RECURSIVE ValuesOfTag(_, _)
\* the non-empty values of a tag, in document order, in either convention
ValuesOfTag(elems, tag) ==
    IF elems = <<>> THEN <<>>
    ELSE (IF Head(elems).tag = tag /\ Strip(Head(elems).text) # <<>>
          THEN <<Strip(Head(elems).text)>> ELSE <<>>)
         \o ValuesOfTag(Tail(elems), tag)

NonEmptyValues ==
    ValuesOfTag(csproj.elems, "RootNamespace")
        \o ValuesOfTag(csproj.elems, "AssemblyName")

\* C13: on a parseable manifest derive_namespace returns the first non-empty
\* value among the RootNamespace tag and then the AssemblyName tag, in
\* either convention, and the filename stem when neither tag has a
\* non-empty value; it never returns an empty string.
C13_DerivedNamespace ==
    (dpc = "done" /\ csproj.is_file /\ csproj.ok) =>
        /\ derived.some
        /\ derived.name # <<>>
        /\ derived.name = IF NonEmptyValues # <<>> THEN NonEmptyValues[1]
                          ELSE Stem(csproj.name)

(***************************************************************************)
(* Claims on __main__                                                      *)
(***************************************************************************)
\* the configuration errors: a required search scope is missing, the
\* repository or a branch is invalid, the custom pattern omits its
\* placeholder
MissingScope == args.mode # "git" /\ args.search_scope = "absent"

InvalidRepositoryOrBranch ==
    /\ args.mode = "git"
    /\ args.repo_path # "repo" \/ ~args.base_in_heads \/ ~args.branch_in_heads

MissingPlaceholder ==
    args.mode = "sproc" /\ PatternErrors(args.sproc_regex_pattern) # {}

\* a configuration error is fatal: no scan is started, and the process ends
\* with a status that is not zero
FatalBeforeScan == scans = {} /\ (mpc = "exit" => exit_status \in {"1", "2"})

\* C11: every configuration error (missing required search scope, invalid
\* repository or branch reference, custom pattern missing its placeholder)
\* is fatal: the process exits with a non-zero status and no manifest,
\* source-file or sproc scan has been started before the exit.
C11_ConfigurationErrorFatal ==
    (MissingScope \/ InvalidRepositoryOrBranch \/ MissingPlaceholder)
        => FatalBeforeScan

\* C12: no not-found condition (no manifest upward from a file, no
\* derivable namespace, no enclosing declaration) is fatal in any mode: the
\* run continues and the process does not end with an error status
\* because of it.
C12_NotFoundNotFatal ==
    not_found # {} => exit_status \notin {"1", "2"}

\* a failure of the walk over the parts of a directory: a part is missing,
\* is a blob (a leaf) or is a commit (the placeholder of a submodule)
NavigationFailures == {"missing", "blob", "commit"}

\* a failure of the repository access while a directory is read
AccessFailures == {"git_error", "blob_error"}

\* the directory the walk from the root reaches for the path d holds a
\* manifest
NavigableManifestAt(d) ==
    LET nav == Navigate(commit_tree, <<>>, d, 1) IN
    nav.ok /\ FirstManifestBlob(commit_tree[nav.at]) # 0

\* some ancestor of the directory of the source file, that directory
\* included, is navigable and holds a manifest
ShallowerManifest ==
    \E n \in 0..Len(Parent(cs_file)) : NavigableManifestAt(SubSeq(Parent(cs_file), 1, n))

\* C14: when the walk of the snapshot locator to the current directory hits
\* a leaf, a submodule placeholder or a missing component, the upward search
\* continues at the parent, so that the search ends with a manifest whenever
\* a shallower navigable ancestor holds one.
C14_UpwardSearchContinues ==
    (/\ loc_mode = "snapshot" /\ lpc \in {"found", "none"}
     /\ loc_faults # {} /\ loc_faults \subseteq NavigationFailures
     /\ ShallowerManifest)
    => lpc = "found"

\* C15: after a failure of the tree navigation or of a directory listing
\* (a component missing or not a container, a submodule boundary, a
\* version-control or I/O error) a locator stops the search and returns
\* None; it never returns a manifest after such a failure.
C15_NoManifestAfterFailure ==
    (lpc \in {"found", "none"} /\ loc_faults # {})
    => (lpc = "none" /\ project_file = NoPath)

(***************************************************************************)
(* Claims on the stages of the funnel                                      *)
(***************************************************************************)
\* the namespace handed to find_consumers is empty or carries the sentinel
UnknownOrUnreliable ==
    target_namespace = <<>> \/ IsPrefix(NamespaceErrorPrefix, target_namespace)

\* step 3 is behind the run
PastNamespaceStage == fpc \in {"step4", "step5", "done"}

\* C16: when the target namespace is empty or the NAMESPACE_ERROR_ sentinel,
\* the Namespace-Import stage is skipped: its survivors are the stage-1
\* survivors, each with an empty file set, and the stage lists no directory
\* and reads no source file.
C16_NamespaceStageSkipped ==
    (UnknownOrUnreliable /\ PastNamespaceStage) =>
        /\ namespace_consumers = direct_consumers
        /\ {r \in recorded : r[1] = "namespace"}
              = {<<"namespace", c, <<>>>> : c \in Range(direct_consumers)}
        /\ listed = <<>>
        /\ cs_file_cache = <<>>
        /\ \A r \in reads : r[1] # "namespace"

\* with the sentinel and no type filter the two stage-1 survivors came
\* back, without files, though a file of each imports the sentinel's text
C16_Witness ==
    /\ fpc = "done"
    /\ target_namespace = Arg.NsError
    /\ class_name = <<>>
    /\ Len(direct_consumers) = 2
    /\ ReturnedConsumers = Range(direct_consumers)
    /\ \A i \in DOMAIN final_consumers_data :
          final_consumers_data[i].relevant_files = <<>>

\* the text of the file f holds an import of the target namespace or of one
\* of its sub-namespaces
ImportsIn(f) == using_pattern(sources[Resolve(f)], target_namespace)

\* the files scanned for the consumer c at step 3: the files of the listing
\* of its directory that could be read
ScannedFiles(c) ==
    {f \in Range(cs_file_cache[Parent(c)]) : <<"read", f>> \notin funnel_faults}

\* step 3 ran over the stage-1 survivors and no later stage has run
AfterNamespaceStage ==
    /\ direct_consumers # <<>>
    /\ fpc = "step4" \/ (fpc = "done" /\ (class_name = <<>> \/ namespace_consumers = <<>>))

\* a sequence without repetition
NoRepeat(q) == \A i \in DOMAIN q : \A j \in DOMAIN q : q[i] = q[j] => i = j

\* C17: in the Namespace-Import stage with a known namespace a stage-1
\* survivor advances if and only if at least one scanned file holds an
\* import of the namespace or of a sub-namespace, and its file set is then
\* exactly the set of the scanned files that match.
C17_NamespaceStageMatches ==
    (AfterNamespaceStage /\ ~UnknownOrUnreliable) =>
        /\ Range(namespace_consumers) \subseteq Range(direct_consumers)
        /\ \A c \in Range(direct_consumers) :
              /\ Parent(c) \in DOMAIN cs_file_cache
              /\ c \in Range(namespace_consumers)
                    <=> (\E f \in ScannedFiles(c) : ImportsIn(f))
              /\ Range(consumer_data[c].relevant_files)
                    = {f \in ScannedFiles(c) : ImportsIn(f)}
              /\ NoRepeat(consumer_data[c].relevant_files)

\* of two stage-1 survivors one advanced with one of its two scanned files,
\* the other, none of whose files matches, did not
C17_Witness ==
    /\ AfterNamespaceStage
    /\ target_namespace = Arg.Acme
    /\ Len(direct_consumers) = 2
    /\ namespace_consumers = <<ProjectB>>
    /\ Cardinality(ScannedFiles(ProjectB)) = 2
    /\ Len(consumer_data[ProjectB].relevant_files) = 1
    /\ ScannedFiles(ProjectC) # {}

\* the files find_consumers attributed to the consumer c, at any stage and
\* in what it returned
AttributedFiles(c) ==
    UNION {Range(r[3]) : r \in {x \in recorded : x[2] = c}}
        \cup UNION {Range(final_consumers_data[i].relevant_files) :
                        i \in {j \in DOMAIN final_consumers_data :
                                  final_consumers_data[j].consumer_path = c}}

\* C18: every file find_consumers attributes to a consumer is owned by that
\* consumer: the locator applied to the file returns the consumer's
\* manifest; a file under the directory of a nested project is never
\* attributed to the outer consumer.
C18_AttributedFilesOwned ==
    \A c \in Range(direct_consumers) :
        \A f \in AttributedFiles(c) : NearestManifestFrom(Parent(f)) = SomePath(c)

\* the files the stage recorded for the consumer c, <<>> when it dropped c
RecordedFiles(stage, c) ==
    IF \E r \in recorded : r[1] = stage /\ r[2] = c
    THEN (CHOOSE r \in recorded : r[1] = stage /\ r[2] = c)[3]
    ELSE <<>>

\* the text of the file f passes the filter of the stage
PassesFilter(stage, f) ==
    IF stage = "type" THEN class_pattern(sources[Resolve(f)], class_name)
    ELSE method_pattern(sources[Resolve(f)], method_name)

\* the files the stage is to keep for the consumer c: the files the stage
\* before it left c that could be read and pass the filter
MatchingSubset(previous, stage, c) ==
    {f \in Range(RecordedFiles(previous, c)) :
        <<"read", f>> \notin funnel_faults /\ PassesFilter(stage, f)}

\* what a narrowing stage is to do with the survivors of the stage before:
\* read their files only, drop the survivors without a match, leave the
\* others exactly their matching files
NarrowedBy(previous, stage, before, after) ==
    /\ \A r \in reads :
          r[1] = stage => \E c \in Range(before) : r[2] \in Range(RecordedFiles(previous, c))
    /\ Range(after) \subseteq Range(before)
    /\ \A c \in Range(before) :
          /\ c \in Range(after) <=> MatchingSubset(previous, stage, c) # {}
          /\ c \in Range(after) =>
                /\ Range(consumer_data[c].relevant_files) = MatchingSubset(previous, stage, c)
                /\ RecordedFiles(stage, c) = consumer_data[c].relevant_files
                /\ NoRepeat(consumer_data[c].relevant_files)

\* step 4 ran and step 5 has not
AfterTypeStage ==
    /\ namespace_consumers # <<>> /\ class_name # <<>>
    /\ fpc = "step5" \/ (fpc = "done" /\ (method_name = <<>> \/ class_consumers = <<>>))

\* step 5 ran
AfterMethodStage == fpc = "done" /\ class_consumers # <<>> /\ method_name # <<>>

\* the survivors of a stage as the stage recorded them
StageSet(stage, keys) ==
    [i \in DOMAIN keys |->
        [consumer_path |-> keys[i],
         consumer_name |-> Stem(keys[i][Len(keys[i])]),
         relevant_files |-> RecordedFiles(stage, keys[i])]]

\* C19: the Type-Usage stage and the Call-Site-Usage stage scan only the
\* files the stage before them attributed to a survivor; a survivor without
\* a matching file is dropped, a survivor with matches keeps exactly the
\* matching files; when the type name, respectively the method name, was
\* not requested, the survivors the stage before it left are returned
\* unchanged.
C19_NarrowingStages ==
    /\ AfterTypeStage => NarrowedBy("namespace", "type", namespace_consumers, class_consumers)
    /\ AfterMethodStage => NarrowedBy("type", "method", class_consumers, method_consumers)
    /\ (fpc = "done" /\ class_name = <<>> /\ namespace_consumers # <<>>) =>
          /\ final_consumers_data = StageSet("namespace", namespace_consumers)
          /\ \A r \in reads : r[1] \notin {"type", "method"}
    /\ (fpc = "done" /\ method_name = <<>> /\ class_consumers # <<>>) =>
          /\ final_consumers_data = StageSet("type", class_consumers)
          /\ \A r \in reads : r[1] # "method"

\* two survivors reached the Call-Site-Usage stage: one was dropped, the
\* other kept one of the two files the Type-Usage stage had left it
C19_Witness ==
    /\ AfterMethodStage
    /\ Len(class_consumers) = 2
    /\ Len(method_consumers) = 1
    /\ \E c \in Range(method_consumers) :
          /\ Len(RecordedFiles("type", c)) = 2
          /\ Len(RecordedFiles("method", c)) = 1

\* what the one listing of the directory d gave: nothing when it raised
ListingOf(d) ==
    IF <<"list", d>> \in funnel_faults THEN <<>> ELSE RGlob(d, CsSuffix)

\* the cache holds, for every directory listed and for no other, what its
\* listing gave
CacheIsFirstListing ==
    /\ DOMAIN cs_file_cache = Range(listed)
    /\ \A d \in DOMAIN cs_file_cache : cs_file_cache[d] = ListingOf(d)

\* a step of one call leaves every entry the cache holds as it is
CacheEntriesKept ==
    funnel_run' = funnel_run =>
        \A d \in DOMAIN cs_file_cache :
            d \in DOMAIN cs_file_cache' /\ cs_file_cache'[d] = cs_file_cache[d]

\* C20: within one call of find_consumers the directory scan cache is
\* filled at most once per directory: no directory is listed twice, however
\* many survivors share it, and an entry, the empty entry stored on a
\* listing error included, is never overwritten nor removed.
C20_CacheFilledOnce ==
    /\ [](NoRepeat(listed) /\ CacheIsFirstListing)
    /\ [][CacheEntriesKept]_vars

\* the two survivors B.csproj and B2.csproj share the directory B, which
\* was listed once and whose files both were given
C20_Witness ==
    /\ fpc = "done"
    /\ Len(namespace_consumers) = 2
    /\ \A c \in Range(namespace_consumers) : Parent(c) = <<Nm.s, Nm.B>>
    /\ listed = <<<<Nm.s, Nm.B>>>>
    /\ \A c \in Range(namespace_consumers) : consumer_data[c].relevant_files # <<>>

(***************************************************************************)
(* Claims on the enclosing declaration                                     *)
(***************************************************************************)
\* the declaration matches of the text before the offset k, as the scan of
\* that text finds them
MatchesBefore(k) == EnclosingTypeFindIter(SubSeq(content, 1, k), 1)

\* the match of a list whose start offset is the largest
LatestMatch(ms) == CHOOSE m \in Range(ms) : \A x \in Range(ms) : x.start <= m.start

\* C21: find_enclosing_type_name(text, k) returns the name of the
\* declaration match whose start offset is the largest one less than k,
\* only the text before k being searched, and returns None exactly when no
\* declaration match starts before k.
C21_NearestPrecedingDeclaration ==
    tpc = "enclosed" =>
        LET ms == MatchesBefore(match_start_index) IN
        /\ enclosing.some <=> ms # <<>>
        /\ ms # <<>> =>
              /\ LatestMatch(ms).start - 1 < match_start_index
              /\ enclosing = SomeName(TypeNameBase(Strip(LatestMatch(ms).name)))

\* two declarations start before the offset, one after it; the name of the
\* second came back and is not the name of the first
C21_Witness ==
    /\ tpc = "enclosed"
    /\ content = TwoDeclarationsSampleText
    /\ Len(MatchesBefore(match_start_index)) = 2
    /\ enclosing = SomeName(<<"B">>)

(***************************************************************************)
(* Claims on the binding of sproc references                               *)
(***************************************************************************)
\* the pattern the call searched with
UsedPattern == sproc_pattern_str(sproc_name_input, custom_sproc_regex_pattern)

\* the offset (1-based) of the first sproc match of the file f, 0 when f
\* holds none
FirstMatchOf(f) ==
    LET Hits == {i \in DOMAIN sources[Resolve(f)] :
                    SprocMatchAt(sources[Resolve(f)], i, UsedPattern)}
    IN  IF Hits = {} THEN 0 ELSE CHOOSE i \in Hits : \A j \in Hits : i <= j

\* the files of the scope that were read and hold at least one sproc match
FilesWithMatch ==
    IF search_path \in sproc_faults THEN {}
    ELSE {f \in Range(RGlob(search_path, CsSuffix)) :
            ~ReadFails(f, sproc_faults) /\ FirstMatchOf(f) # 0}

\* the (build unit, type) pairs the result has the file f under
PairsOf(f) ==
    {pc \in UNION {{<<p, c>> : c \in DOMAIN projects_classes_sproc_refs[p]} :
                        p \in DOMAIN projects_classes_sproc_refs} :
        f \in projects_classes_sproc_refs[pc[1]][pc[2]]}

\* the build unit that owns f, as the locator found it during the call
OwnerOf(f) == find_project_file_on_disk(Parent(f), sproc_faults)

\* the declaration that encloses the first match of f
EnclosingOfFirst(f) == find_enclosing_type_name(sources[Resolve(f)], FirstMatchOf(f) - 1)

\* the file f is to be left out: no build unit owns it or its first match
\* has no enclosing declaration
LeftOut(f) == ~OwnerOf(f).some \/ ~EnclosingOfFirst(f).some

\* every file of the result
FilesOfResult ==
    UNION {UNION {projects_classes_sproc_refs[p][c] :
                      c \in DOMAIN projects_classes_sproc_refs[p]} :
               p \in DOMAIN projects_classes_sproc_refs}

C23_UnboundFilesLeftOut ==
    spc = "done" =>
        /\ \A p \in DOMAIN projects_classes_sproc_refs :
              /\ DOMAIN projects_classes_sproc_refs[p] # {}
              /\ \A c \in DOMAIN projects_classes_sproc_refs[p] :
                    projects_classes_sproc_refs[p][c] # {}
        /\ FilesOfResult = {f \in FilesWithMatch : ~LeftOut(f)}

\* the file of the project A has a match without enclosing declaration and
\* is left out, the file scanned after it is in the result
C23_Witness ==
    /\ spc = "done"
    /\ <<Nm.s, Nm.A, d_cs>> \in FilesWithMatch
    /\ OwnerOf(<<Nm.s, Nm.A, d_cs>>).some
    /\ ~EnclosingOfFirst(<<Nm.s, Nm.A, d_cs>>).some
    /\ FilesOfResult = {<<Nm.s, Nm.B, e_cs>>}

(***************************************************************************)
(* Claims on the Project-Reference stage and on the errors of the funnel   *)
(***************************************************************************)
\* the reference include_ carries a build-variable placeholder
CarriesPlaceholder(include_) ==
    \E i \in DOMAIN include_ : \E j \in DOMAIN include_ :
        StartsWith(include_, i, <<"$", "(">>) /\ include_[j] = ")"

\* the references the manifest c declares, of either convention
DeclaredReferences(c) == Range(manifests[c].msb) \cup Range(manifests[c].plain)

\* a declared reference of c without placeholder leads, from the directory
\* of c, to the file the target is
DeclaresTarget(c) ==
    \E include_ \in DeclaredReferences(c) :
        /\ include_ # <<>>
        /\ ~CarriesPlaceholder(include_)
        /\ Exists(JoinPath(Parent(c), ReplaceBackslash(include_)))
        /\ SameFile(JoinPath(Parent(c), ReplaceBackslash(include_)), target_csproj_path)

\* step 2 is behind the run
PastReferenceStage == fpc \in {"step3", "step4", "step5", "done"}

\* the manifest c was read and parsed at step 2
ParsedManifest(c) ==
    c \in DOMAIN manifests /\ manifests[c].ok /\ <<"parse", c>> \notin funnel_faults

\* C24: a candidate manifest becomes a Project-Reference-stage consumer if
\* and only if at least one of its declared references without a
\* build-variable placeholder resolves, from the candidate's directory, to
\* the same file as the target; the stage-1 match carries no file.
C24_ReferenceStage ==
    PastReferenceStage =>
        /\ \A c \in Range(potential_consumers) :
              ParsedManifest(c) => (c \in Range(direct_consumers) <=> DeclaresTarget(c))
        /\ \A r \in recorded : r[1] = "reference" => r[3] = <<>>

\* ---- an error on one item of the scope ----

\* the call on the repaired scope has returned
ReplayDone == funnel_run = 2 /\ fpc = "done"

\* C25: an I/O or parse error on one manifest or one source file skips that
\* item only: the call returns what it returns on the same scope where the
\* failing manifest holds no reference and the failing file no match
C25_ErrorSkipsOneItem ==
    ReplayDone => final_consumers_data = first_result

\* a call that met an error and still returned a consumer, made again on
\* the repaired scope
C25_Witness ==
    ReplayDone /\ first_result # <<>>

\* ---- the changed files of a branch ----

\* analyze_branch_changes has returned
BranchReturned == loc_mode = "branch" /\ lpc = "returned"

\* the manifests a file is listed under, as often as it is listed
ListingsOf(f) ==
    {<<m, i>> \in (DOMAIN project_changes) \X (1..MaxDiff) :
        i \in DOMAIN project_changes[m] /\ project_changes[m][i] = f}

ListedFiles == UNION {Range(project_changes[m]) : m \in DOMAIN project_changes}

\* f is a source file the diff holds as not deleted
NonDeletedSource(f) ==
    \E i \in DOMAIN diff_index :
        /\ diff_index[i].b_path = f
        /\ diff_index[i].change_type # "D"
        /\ EndsWith(Lower(f[Len(f)]), CsSuffix)

\* a directory from that of f up to the root holds a manifest in the
\* feature revision
ManifestUpward(f) ==
    \E n \in 0..(Len(f) - 1) : SnapshotManifestIn(SubSeq(f, 1, n))

\* every listed file is a source file of the diff that is not deleted
ListedAreChangedSources == \A f \in ListedFiles : NonDeletedSource(f)

\* a listed file is listed once, under the manifest the snapshot locator
\* returns for it in the feature revision
ListedUnderLocated ==
    \A f \in ListedFiles :
        /\ Cardinality(ListingsOf(f)) = 1
        /\ \A l \in ListingsOf(f) :
              find_project_file(commit_tree, Parent(f), "none") = SomePath(l[1])

\* a changed source file with no manifest upward is not listed
UnownedOmitted ==
    \A i \in DOMAIN diff_index :
        ~ManifestUpward(diff_index[i].b_path) => diff_index[i].b_path \notin ListedFiles

NoEmptyList == \A m \in DOMAIN project_changes : project_changes[m] # <<>>

\* C26: analyze_branch_changes returns a mapping manifest -> changed source
\* files where every listed file is a non-deleted source file of the diff,
\* listed under exactly one manifest, the one the snapshot locator returns
\* in the feature revision; a changed source file with no manifest upward
\* is left out, and no key has an empty list
C26_ChangedFilesByManifest ==
    BranchReturned =>
        /\ ListedAreChangedSources
        /\ ListedUnderLocated
        /\ UnownedOmitted
        /\ NoEmptyList

\* ---- a type filter on a target of unknown namespace ----

\* a source file in the directory of consumer c names the type
NamesTypeIn(c) ==
    \E f \in DOMAIN sources :
        IsPrefix(Parent(c), f) /\ class_pattern(sources[f], class_name)

\* C27: called with a namespace that is empty or carries the sentinel, and
\* with a type filter, find_consumers returns the empty list whatever the
\* scope holds; this is the call the git and sproc modes make for a target
\* whose namespace cannot be derived
C27_NoConsumerWithoutNamespace ==
    (fpc = "done" /\ UnknownOrUnreliable /\ class_name # <<>>)
        => final_consumers_data = <<>>

\* such a call where a manifest refers to the target and a source file
\* beside that manifest names the type
C27_Witness ==
    /\ fpc = "done" /\ UnknownOrUnreliable /\ class_name # <<>>
    /\ \E c \in Range(direct_consumers) : NamesTypeIn(c)
    /\ funnel_faults = {}

\* ---- a method filter without a type filter ----

\* the call without the method filter has returned
RecallDone == funnel_run = 3 /\ fpc = "done"

\* neither the type stage nor the call-site stage has read or recorded
NoNarrowingStageRun ==
    /\ \A r \in recorded : r[1] \notin {"type", "method"}
    /\ \A r \in reads : r[1] \notin {"type", "method"}
    /\ class_consumers = <<>> /\ method_consumers = <<>>

\* C28: with a method filter and no type filter the call-site stage is
\* never run, and the call returns what the same call returns with no
\* method filter
C28_MethodFilterNeedsType ==
    /\ (fpc = "done" /\ class_name = <<>>) => NoNarrowingStageRun
    /\ RecallDone => final_consumers_data = first_result

\* the two calls have returned a consumer none of whose files calls the
\* method
C28_Witness ==
    /\ RecallDone
    /\ \E i \in DOMAIN first_result :
          /\ first_result[i].relevant_files # <<>>
          /\ \A f \in Range(first_result[i].relevant_files) :
                ~method_pattern(sources[Resolve(f)], Arg.Render)

\* ---- one entry per consumer ----

\* the manifest the scan of the scope met more than once
MetTwice(c) ==
    \E i, j \in DOMAIN potential_consumers :
        i # j /\ potential_consumers[i] = c /\ potential_consumers[j] = c

\* C29: find_consumers returns each consumer at most once, under the
\* resolved path of its manifest, also when the scope holds the manifest
\* under several names
C29_EachConsumerOnce ==
    fpc = "done" =>
        \A i, j \in DOMAIN final_consumers_data :
            /\ Resolve(final_consumers_data[i].consumer_path)
                  = final_consumers_data[i].consumer_path
            /\ final_consumers_data[i].consumer_path = final_consumers_data[j].consumer_path
                  => i = j

\* a returned consumer whose manifest the scan met under two names, of a
\* target that is a manifest of its own
C29_Witness ==
    /\ fpc = "done"
    /\ \E i \in DOMAIN final_consumers_data :
          /\ MetTwice(final_consumers_data[i].consumer_path)
          /\ final_consumers_data[i].consumer_path # Resolve(target_csproj_path)

\* ---- the search loops end ----

\* the locators under a scheduler that lets a search loop that can go on
\* go on
SpecLocatorFair ==
    SpecLocator /\ WF_vars(SnapshotLocate) /\ WF_vars(DiskLocate)

\* the search loop of a locator has been left
LocatorStopped == lpc \in {"found", "none"}

\* a run of a locator loop
SearchRun == loc_mode \in {"snapshot", "disk"}

\* an iteration of a search loop returns a manifest, stops without one, or
\* goes on from a strictly shorter path, the parent
IterationProgress ==
    loc_steps' = loc_steps + 1 =>
        \/ lpc' = "found" /\ project_file'.some
        \/ lpc' = "none" /\ ~project_file'.some
        \/ /\ lpc' = "search"
           /\ Len(current_path') < Len(current_path)
           /\ IsPrefix(current_path', current_path)

\* the iterations so far are at most the depth of the directory of the
\* file, and one more
IterationsBounded == loc_steps <= Len(Parent(cs_file)) + 1

\* C30: the two locator loops end: every iteration returns a manifest,
\* stops with nothing found or moves to a strictly shorter parent path, and
\* a search takes at most depth of the directory of the file + 1 iterations
C30_SearchTerminates ==
    /\ []IterationsBounded
    /\ [][IterationProgress]_vars
    /\ SearchRun => <>LocatorStopped

\* a search that went through every directory up to the root and ended
C30_Witness ==
    /\ SearchRun
    /\ LocatorStopped
    /\ Len(Parent(cs_file)) >= 2
    /\ loc_steps = Len(Parent(cs_file)) + 1

====
